---- MODULE Spec2Model ----
(***************************************************************************)
(* gopherpack: a main process (supervisor) that re-executes its own binary *)
(* as one worker per CPU core, shuts the pack down on SIGINT / SIGTERM /   *)
(* SIGQUIT and starts a successor main process on SIGUSR2.                 *)
(*                                                                         *)
(* Modelled sources: src/gopherpack.go (second copy, lines 250-450),       *)
(* src/unnamed/part_001 (ListenAndServeTCP / ListenAndServeHttp),          *)
(* src/unnamed/part_002 (forkProcess, getListenerWithSocketOptions),       *)
(* src/grpc_server.go (ListenAndServeGRPC).                                *)
(*                                                                         *)
(* Strings that the code formats, parses or compares by prefix are         *)
(* sequences of lexemes: "GOPHERPACK_PPID=12" is                           *)
(* <<"GOPHERPACK_", "PPID", "=", "1", "2">>.                               *)
(***************************************************************************)
EXTENDS Integers, Sequences, FiniteSets, TLC

(* ------------------------------- bounds -------------------------------- *)

\* runtime.NumCPU() of the host in the runs of one pack (SpecPool)
PoolCPUs == 2

\* runtime.NumCPU() of the host in the runs with upgrades (Spec)
UpgradeCPUs == 1

\* number of processes the OS lets the pack create (fork fails beyond it)
MaxProcs == 3

\* the same in the runs of two generations (SpecGen)
GenProcs == 4

\* the same in the runs of two generations on the larger host (SpecGenPool)
GenPoolProcs == 6

\* PID the OS gives to the first process of the pack
FirstPid == 8

\* number of signals sent to main processes from outside the pack, or to a
\* worker in the runs of one worker
MaxExtSignals == 2

\* connections a worker accepts
MaxConns == 1

(* ------------------------- program constants --------------------------- *)

\* prevMainProcessGraceInterval = 5 * time.Second, in seconds
prevMainProcessGraceInterval == 5

\* make(chan os.Signal, 1)
SigChanCap == 1

\* the nil *os.Process
Nil == 0

\* the largest of the process limits
ProcsMax ==
    IF GenPoolProcs > GenProcs /\ GenPoolProcs > MaxProcs THEN GenPoolProcs
    ELSE IF GenProcs > MaxProcs THEN GenProcs ELSE MaxProcs

Pids == FirstPid..(FirstPid + ProcsMax - 1)

\* the pool slots of the larger host
Cores == 0..((IF PoolCPUs > UpgradeCPUs THEN PoolCPUs ELSE UpgradeCPUs) - 1)

ShutdownSignals == {"SIGINT", "SIGTERM", "SIGQUIT"}

\* signal.Notify(sigChan, SIGINT, SIGTERM, SIGQUIT, SIGUSR2) in the main process
MainNotifySet == ShutdownSignals \cup {"SIGUSR2"}

\* a signal.Notify of the worker that asks for SIGUSR2 too
WorkerNotifySetWithUpgrade == ShutdownSignals \cup {"SIGUSR2"}

\* signal.Notify(sigChan, SIGINT, SIGTERM, SIGQUIT) in a worker
WorkerNotifySet == ShutdownSignals

NoSig == "none"

(* --------------------------- the environment --------------------------- *)

\* names of the handshake variables; the file that declares them is not
\* among the sources, the names follow the one prefix forkProcess strips
envPrefix == <<"GOPHERPACK_">>

envPPID == envPrefix \o <<"PPID">>

envCPUCore == envPrefix \o <<"CPU_CORE">>

envPrevPPID == envPrefix \o <<"PREV_PPID">>

TokenNames == {envPPID, envCPUCore, envPrevPPID}

Digit(n) ==
    CASE n = 0 -> "0" [] n = 1 -> "1" [] n = 2 -> "2" [] n = 3 -> "3"
      [] n = 4 -> "4" [] n = 5 -> "5" [] n = 6 -> "6" [] n = 7 -> "7"
      [] n = 8 -> "8" [] n = 9 -> "9"

DigitChars == {"0", "1", "2", "3", "4", "5", "6", "7", "8", "9"}

DigitVal(c) == CHOOSE n \in 0..9 : Digit(n) = c

\* fmt "%d" of a non-negative integer
RECURSIVE IntToStr(_)
IntToStr(n) == IF n < 10 THEN <<Digit(n)>>
               ELSE IntToStr(n \div 10) \o <<Digit(n % 10)>>

RECURSIVE DigitsVal(_)
DigitsVal(s) == IF Len(s) = 0 THEN 0
                ELSE 10 * DigitsVal(SubSeq(s, 1, Len(s) - 1)) + DigitVal(s[Len(s)])

AllDigits(s) == Len(s) > 0 /\ \A k \in 1..Len(s) : s[k] \in DigitChars

\* a conversion that yields 0 for a string that is no number
AtoiOrZero(s) ==
    IF Len(s) > 0 /\ s[1] \in {"+", "-"} /\ AllDigits(Tail(s))
    THEN [ok |-> TRUE,
          val |-> IF s[1] = "-" THEN 0 - DigitsVal(Tail(s)) ELSE DigitsVal(Tail(s))]
    ELSE IF AllDigits(s) THEN [ok |-> TRUE, val |-> DigitsVal(s)]
         ELSE [ok |-> TRUE, val |-> 0]

\* strconv.Atoi: optional sign, then one or more decimal digits
Atoi(s) ==
    IF Len(s) > 0 /\ s[1] \in {"+", "-"}
    THEN IF AllDigits(Tail(s))
         THEN [ok |-> TRUE,
               val |-> IF s[1] = "-" THEN 0 - DigitsVal(Tail(s)) ELSE DigitsVal(Tail(s))]
         ELSE [ok |-> FALSE, val |-> 0]
    ELSE IF AllDigits(s) THEN [ok |-> TRUE, val |-> DigitsVal(s)]
         ELSE [ok |-> FALSE, val |-> 0]

\* fmt.Sprintf("%s=%d", name, n)
SprintfEnv(name, n) == name \o <<"=">> \o IntToStr(n)

\* strings.HasPrefix
HasPrefix(s, prefix) ==
    Len(s) >= Len(prefix) /\ SubSeq(s, 1, Len(prefix)) = prefix

\* the entries of env that set the variable key
EntriesOf(env, key) == SelectSeq(env, LAMBDA e : HasPrefix(e, key \o <<"=">>))

\* os.Getenv: the value of the first entry "key=value", "" when there is none
Getenv(env, key) ==
    IF Len(EntriesOf(env, key)) = 0 THEN <<>>
    ELSE SubSeq(Head(EntriesOf(env, key)), Len(key) + 2, Len(Head(EntriesOf(env, key))))

\* the entries of env that carry a handshake variable
Tokens(env) == SelectSeq(env, LAMBDA e : HasPrefix(e, envPrefix))

Min(a, b) == IF a < b THEN a ELSE b

\* forkProcess without the HasPrefix filter: the current environment is passed on whole
ForkEnvUnfiltered(curEnv, envValues) == curEnv \o envValues

\* forkProcess: the child's environment is the current one without the
\* gopherpack variables, followed by envValues
ForkEnv(curEnv, envValues) ==
    SelectSeq(curEnv, LAMBDA e : ~HasPrefix(e, envPrefix)) \o envValues

(* ------------------------------- state --------------------------------- *)

VARIABLES
    numCPU,         \* runtime.NumCPU() of the host
    procLimit,      \* number of processes the OS lets the pack create
    upgrading,      \* per main process: where the SIGUSR2 case of its signal loop stands
    pc,             \* per process: where its main control flow stands
    environ,        \* per process: os.Environ()
    isMainProcess,  \* per process: package variable isMainProcess
    workerCpuCore,  \* per process: package variable workerCpuCore
    OnSIGUSR2,      \* the host's hook variable: "nil", or a hook that "returns" or "panics"
    workers,        \* per main process: workers[i], Nil or a PID
    idx,            \* per main process: i of the spawn loop
    notified,       \* per process: the signals signal.Notify relays to sigChan
    sigChan,        \* per process: the buffered channel sigChan
    sig,            \* per main process: the variable sig of the signal loop
    task,           \* per main process and pool slot: the goroutine of sendSignalToWorkers
    grace,          \* per main process: the goroutine that retires the previous main process
    timer,          \* per main process: seconds left of its time.Sleep
    nextPid,        \* the PID the OS gives to the next process
    extCount,       \* signals sent from outside so far
    logged,         \* history: the error messages written, <<pid, message>>
    given,          \* history: per process, the forkProcess call that made it
    forks,          \* history: per main process, its forkProcess calls by kind
    sent,           \* history: the Signal calls of the pack that returned nil
    acted,          \* history: per main process, the signals its loop acted on, by class
    hookCalls,      \* history: per main process, calls of OnSIGUSR2
    upgradeLive,    \* history: per main process, it started a successor while a worker of its was serving
    elapsed,        \* history: per main process, seconds since its grace goroutine started
    entry,          \* the host program: the entry point it calls, its server argument,
                    \* its hook variable OnServerShutdown
    wk              \* per process: its state in the worker's part of the entry point

vars == <<numCPU, procLimit, upgrading, pc, environ, isMainProcess, workerCpuCore, OnSIGUSR2, workers, idx,
          notified, sigChan, sig, task, grace, timer, nextPid, extCount,
          logged, given, forks, sent, acted, hookCalls, upgradeLive, elapsed,
          entry, wk>>

\* the variables of the worker's part of an entry point
wvars == <<entry, wk>>

hist == <<logged, given, forks, sent, acted, hookCalls, upgradeLive, elapsed>>

\* a process that exists and has not ended
AlivePc(x) == x \in {"New", "Starting", "Running", "Exiting",
                     "Setup", "Serving", "ShuttingDown"}

Alive(p) == p \in Pids /\ AlivePc(pc[p])

\* a package initialisation that asks whether GOPHERPACK_PPID is set at all
IsMainEnvByLookup(env) == Len(EntriesOf(env, envPPID)) = 0

\* package initialisation: isMainProcess = os.Getenv(envPPID) == ""
IsMainEnv(env) == Getenv(env, envPPID) = <<>>

\* an entry point without the check of isMainProcess
StartPcOfWorker(env) == "Setup"

\* where a process starts: every entry point calls StartMainProcess in the
\* main process and sets up a worker otherwise
StartPc(env) == IF IsMainEnv(env) THEN "Starting" ELSE "Setup"

PathEntry == <<"PATH", "=", "/bin">>

\* a variable whose name only begins like GOPHERPACK_PPID
DecoyEntry == envPPID \o <<"_X", "=", "1">>

\* left over in the first environment: a core number and an unparsable previous PID
StaleEnv == <<envCPUCore \o <<"=", "7">>, PathEntry, envPrevPPID \o <<"=", "x">> >>

\* environments the first process of the pack is started in: clean; StaleEnv;
\* with the PID of no process left over as previous PID; with a parent PID
\* (it runs as a worker)
InitEnvs ==
    { <<PathEntry>>,
      StaleEnv,
      <<SprintfEnv(envPrevPPID, 3), PathEntry>>,
      <<SprintfEnv(envPPID, 5), PathEntry, SprintfEnv(envCPUCore, 1)>> }

\* environments without a repeated name, for role detection: each handshake
\* variable absent, empty or set
RoleEnvs ==
    { a \o b \o c \o d :
        a \in {<<>>, <<envPPID \o <<"=">> >>, <<SprintfEnv(envPPID, 5)>>,
               <<SprintfEnv(envPPID, 0)>>, <<envPPID \o <<"=", "x">> >>},
        b \in {<<>>, <<envCPUCore \o <<"=">> >>, <<SprintfEnv(envCPUCore, 1)>>},
        c \in {<<>>, <<SprintfEnv(envPrevPPID, 9)>>},
        d \in {<<>>, <<PathEntry>>, <<DecoyEntry>>} }

\* a process that has not entered the worker's part of an entry point
FreshWorker ==
    [step |-> "entry", affinity |-> "unset", maxprocs |-> "default", listener |-> "none",
     opts |-> {}, handler |-> "none", hookCalls |-> 0, stopBegun |-> FALSE,
     inflight |-> 0, completed |-> 0, aborted |-> 0, sigServing |-> FALSE,
     usr2 |-> 0, usr2Serving |-> FALSE, lerr |-> <<>>, ret |-> <<>>]

\* the state in which the first process has been started in one of envs; its
\* package variables are initialised when booted, and are yet to be otherwise
InitWith(cpus, envs, hooks, booted) ==
    /\ numCPU = cpus
    /\ procLimit \in {MaxProcs, GenProcs, GenPoolProcs}
    /\ upgrading = [p \in Pids |-> "no"]
    /\ \E e \in envs :
         /\ environ = [p \in Pids |-> IF p = FirstPid THEN e ELSE <<>>]
         /\ pc = [p \in Pids |-> IF p # FirstPid THEN "none"
                                 ELSE IF booted THEN StartPc(e) ELSE "New"]
         /\ isMainProcess = [p \in Pids |-> booted /\ p = FirstPid /\ IsMainEnv(e)]
         /\ workerCpuCore = [p \in Pids |-> IF booted /\ p = FirstPid
                                            THEN Getenv(e, envCPUCore) ELSE <<>>]
    /\ OnSIGUSR2 \in hooks
    /\ workers = [p \in Pids |-> [k \in Cores |-> Nil]]
    /\ idx = [p \in Pids |-> 0]
    /\ notified = [p \in Pids |-> {}]
    /\ sigChan = [p \in Pids |-> <<>>]
    /\ sig = [p \in Pids |-> NoSig]
    /\ task = [p \in Pids |-> [k \in Cores |-> "none"]]
    /\ grace = [p \in Pids |-> "none"]
    /\ timer = [p \in Pids |-> 0]
    /\ nextPid = FirstPid + 1
    /\ extCount = 0
    /\ logged = {}
    /\ given = [p \in Pids |-> [parent |-> Nil, kind |-> "none", envValues |-> <<>>]]
    /\ forks = [p \in Pids |-> [worker |-> 0, main |-> 0]]
    /\ sent = {}
    /\ acted = [p \in Pids |-> [shutdown |-> 0, upgrade |-> 0]]
    /\ hookCalls = [p \in Pids |-> 0]
    /\ upgradeLive = [p \in Pids |-> FALSE]
    /\ elapsed = [p \in Pids |-> 0]
    /\ wk = [p \in Pids |-> FreshWorker]

\* the host program of the runs of a pack: the README's HTTP example
PackEntry == [adapter |-> "http", server |-> "set", OnServerShutdown |-> "nil"]

\* the host programs: each entry point, with and without a server
\* argument, without a hook, with a hook that returns, with one that panics
Entries ==
    [adapter : {"http", "tcp", "grpc"}, server : {"nil", "set"},
     OnServerShutdown : {"nil", "returns", "panics"}]

\* environments a process that calls an entry point is started in: a
\* worker's with a core number, without one, with one that is no number;
\* a main process's
WorkerEnvs ==
    { <<SprintfEnv(envPPID, 5), PathEntry, SprintfEnv(envCPUCore, 1)>>,
      <<SprintfEnv(envPPID, 5), PathEntry>>,
      <<SprintfEnv(envPPID, 5), envCPUCore \o <<"=", "x">>, PathEntry>>,
      <<PathEntry>> }

Init == InitWith(UpgradeCPUs, {StaleEnv}, {"panics"}, TRUE) /\ entry = PackEntry /\ procLimit = MaxProcs

InitHook ==
    /\ InitWith(UpgradeCPUs, {<<PathEntry>>}, {"nil", "returns", "panics"}, TRUE)
    /\ procLimit = MaxProcs
    /\ entry = PackEntry

InitWorker ==
    /\ InitWith(UpgradeCPUs, WorkerEnvs, {"nil"}, FALSE)
    /\ procLimit = MaxProcs
    /\ entry \in Entries

InitPool == InitWith(PoolCPUs, InitEnvs, {"nil"}, TRUE) /\ entry = PackEntry /\ procLimit = MaxProcs

InitRole == InitWith(UpgradeCPUs, RoleEnvs, {"nil"}, FALSE) /\ entry = PackEntry /\ procLimit = MaxProcs

\* a pack on the larger host, for each entry point
InitBind ==
    /\ InitWith(PoolCPUs, {<<PathEntry>>}, {"nil"}, TRUE)
    /\ procLimit = MaxProcs
    /\ entry \in {e \in Entries : e.server = "set" /\ e.OnServerShutdown = "nil"}

(* ------------------------- operating system ---------------------------- *)

\* os.StartProcess can succeed only while the OS has a PID to give
ForkOutcomes == IF nextPid < FirstPid + procLimit THEN {TRUE, FALSE} ELSE {FALSE}

\* how many times a Signal(s) call of process "from" on process "to" returned nil
SentCount(from, to, s) ==
    Cardinality({e \in sent : e.from = from /\ e.to = to /\ e.sig = s})

\* the process a signal is sent to: what happens to its control flow.  A
\* signal it has not passed to signal.Notify gets the Go runtime's default:
\* SIGINT, SIGTERM and SIGQUIT end the process, SIGUSR2 is ignored.
DeliverPc(pcf, to, s) ==
    IF to \in Pids /\ AlivePc(pcf[to]) /\ s \notin notified[to] /\ s \in ShutdownSignals
    THEN [pcf EXCEPT ![to] = "Killed"]
    ELSE pcf

\* signal.Notify relays without blocking: a signal is dropped when sigChan is full
DeliverChan(ch, to, s) ==
    IF to \in Pids /\ AlivePc(pc[to]) /\ s \in notified[to] /\ Len(ch[to]) < SigChanCap
    THEN [ch EXCEPT ![to] = Append(@, s)]
    ELSE ch

RecordSent(from, to, s) ==
    sent \cup {[from |-> from, to |-> to, sig |-> s, n |-> SentCount(from, to, s) + 1]}

\* outcomes of os.Process.Signal: nil for a live process; for one that has
\* ended, nil while it is an unreaped zombie and an error once it is reaped;
\* an error for a PID that names no process
SignalOutcomes(to) ==
    IF Alive(to) THEN {TRUE}
    ELSE IF to \in Pids /\ pc[to] # "none" THEN {TRUE, FALSE}
    ELSE {FALSE}

(* ------------------------------ actions -------------------------------- *)

\* package initialisation of the first process, and its entry point's
\* dispatch on isMainProcess
ProcessStart(p) ==
    /\ pc[p] = "New"
    /\ isMainProcess' = [isMainProcess EXCEPT ![p] = IsMainEnv(environ[p])]
    /\ workerCpuCore' = [workerCpuCore EXCEPT ![p] = Getenv(environ[p], envCPUCore)]
    /\ pc' = [pc EXCEPT ![p] = StartPc(environ[p])]
    /\ UNCHANGED <<wvars, numCPU, procLimit, upgrading, environ, OnSIGUSR2, workers, idx, notified, sigChan, sig, task,
                   grace, timer, nextPid, extCount, hist>>

\* a SIGUSR2 case that gives the new main process its PID under the name envPPID
UpgradeEnvValsAsChild(p) == <<SprintfEnv(envPPID, p)>>

\* a spawn loop that gives every worker the core number 0
WorkerEnvValsFirstCore(p, i) == <<SprintfEnv(envPPID, p), SprintfEnv(envCPUCore, 0)>>

\* the environment variables StartMainProcess gives to worker i
WorkerEnvVals(p, i) == <<SprintfEnv(envPPID, p), SprintfEnv(envCPUCore, i)>>

\* the environment variable StartMainProcess gives to a new main process
UpgradeEnvVals(p) == <<SprintfEnv(envPrevPPID, p)>>

\* forkProcess(envValues) called by p with outcome ok: the child process
\* nextPid with its environment, and the child's package initialisation;
\* kind tells the call in the spawn loop from the call in the SIGUSR2 case
Fork(p, kind, envValues, ok) ==
    /\ environ' = IF ok THEN [environ EXCEPT ![nextPid] = ForkEnv(environ[p], envValues)]
                  ELSE environ
    /\ isMainProcess' =
         IF ok THEN [isMainProcess EXCEPT
                       ![nextPid] = IsMainEnv(ForkEnv(environ[p], envValues))]
         ELSE isMainProcess
    /\ workerCpuCore' =
         IF ok THEN [workerCpuCore EXCEPT
                       ![nextPid] = Getenv(ForkEnv(environ[p], envValues), envCPUCore)]
         ELSE workerCpuCore
    /\ given' = IF ok THEN [given EXCEPT
                              ![nextPid] = [parent |-> p, kind |-> kind,
                                            envValues |-> envValues]]
                ELSE given
    /\ nextPid' = IF ok THEN nextPid + 1 ELSE nextPid

\* pc once forkProcess has been called by p with outcome ok
ForkPc(p, envValues, ok) ==
    IF ok THEN [pc EXCEPT ![nextPid] = StartPc(ForkEnv(environ[p], envValues))] ELSE pc

\* one iteration of the spawn loop of StartMainProcess
MainSpawn(p) ==
    /\ pc[p] = "Starting"
    /\ idx[p] < numCPU
    /\ \E ok \in ForkOutcomes :
         /\ Fork(p, "worker", WorkerEnvVals(p, idx[p]), ok)
         /\ pc' = ForkPc(p, WorkerEnvVals(p, idx[p]), ok)
         /\ workers' = [workers EXCEPT ![p][idx[p]] = IF ok THEN nextPid ELSE Nil]
         /\ logged' = IF ok THEN logged ELSE logged \cup {<<p, "could not start worker">>}
    /\ forks' = [forks EXCEPT ![p].worker = @ + 1]
    /\ idx' = [idx EXCEPT ![p] = @ + 1]
    /\ UNCHANGED <<wvars, numCPU, procLimit, upgrading, OnSIGUSR2, notified, sigChan, sig, task, grace, timer,
                   extCount, sent, acted, hookCalls, upgradeLive, elapsed>>

\* the grace goroutine with its time.Sleep left out
GraceTimerNoSleep(p) == timer

\* the grace goroutine begins with time.Sleep(prevMainProcessGraceInterval)
GraceTimer(p) == [timer EXCEPT ![p] = prevMainProcessGraceInterval]

\* after the spawn loop: start the grace goroutine when GOPHERPACK_PREV_PPID
\* is set, then signal.Notify and enter the signal loop
MainListen(p) ==
    /\ pc[p] = "Starting"
    /\ idx[p] = numCPU
    /\ IF Getenv(environ[p], envPrevPPID) # <<>>
       THEN /\ grace' = [grace EXCEPT ![p] = "sleeping"]
            /\ timer' = GraceTimer(p)
       ELSE UNCHANGED <<grace, timer>>
    /\ notified' = [notified EXCEPT ![p] = MainNotifySet]
    /\ pc' = [pc EXCEPT ![p] = "Running"]
    /\ UNCHANGED <<wvars, numCPU, procLimit, upgrading, environ, isMainProcess, workerCpuCore, OnSIGUSR2, workers, idx,
                   sigChan, sig, task, nextPid, extCount, hist>>

\* the grace goroutines whose time.Sleep is not over
Sleeping == {p \in Pids : Alive(p) /\ grace[p] = "sleeping" /\ timer[p] > 0}

\* time passes until the next time.Sleep is over: d seconds for every
\* sleeping grace goroutine
Tick ==
    /\ \E p \in Sleeping :
         LET d == timer[p] IN
         /\ \A q \in Sleeping : timer[q] >= d
         /\ timer' = [q \in Pids |-> IF q \in Sleeping THEN timer[q] - d ELSE timer[q]]
         /\ elapsed' = [q \in Pids |->
                          IF Alive(q) /\ grace[q] = "sleeping"
                          THEN Min(elapsed[q] + d, prevMainProcessGraceInterval)
                          ELSE elapsed[q]]
    /\ UNCHANGED <<wvars, numCPU, procLimit, upgrading, pc, environ, isMainProcess, workerCpuCore, OnSIGUSR2, workers,
                   idx, notified, sigChan, sig, task, grace, nextPid, extCount,
                   logged, given, forks, sent, acted, hookCalls, upgradeLive>>

\* a grace goroutine that ignores the error of strconv.Atoi and signals
\* its own process instead
GraceTargetIgnoringErr(p) ==
    IF Atoi(Getenv(environ[p], envPrevPPID)).ok
    THEN Atoi(Getenv(environ[p], envPrevPPID))
    ELSE [ok |-> TRUE, val |-> p]

\* the grace goroutine: prevMainPID, err := strconv.Atoi(prevMainPIDStr)
GraceTarget(p) == Atoi(Getenv(environ[p], envPrevPPID))

\* the grace goroutine after its sleep: strconv.Atoi, os.FindProcess (which
\* always succeeds on Unix), Signal(SIGTERM); each error is logged
GraceFire(p) ==
    /\ Alive(p)
    /\ grace[p] = "sleeping"
    /\ timer[p] = 0
    /\ grace' = [grace EXCEPT ![p] = "done"]
    /\ IF ~GraceTarget(p).ok
       THEN /\ logged' = logged \cup {<<p, "could not parse previous PID">>}
            /\ UNCHANGED <<pc, sigChan, sent>>
       ELSE \E ok \in SignalOutcomes(GraceTarget(p).val) :
              IF ok
              THEN /\ pc' = DeliverPc(pc, GraceTarget(p).val, "SIGTERM")
                   /\ sigChan' = DeliverChan(sigChan, GraceTarget(p).val, "SIGTERM")
                   /\ sent' = RecordSent(p, GraceTarget(p).val, "SIGTERM")
                   /\ UNCHANGED logged
              ELSE /\ logged' = logged \cup
                                  {<<p, "could not send SIGTERM to previous PID">>}
                   /\ UNCHANGED <<pc, sigChan, sent>>
    /\ UNCHANGED <<wvars, numCPU, procLimit, upgrading, environ, isMainProcess, workerCpuCore, OnSIGUSR2, workers, idx,
                   notified, sig, task, timer, nextPid, extCount,
                   given, forks, acted, hookCalls, upgradeLive, elapsed>>

\* a signal loop that also ends when forkProcess fails
IsExitOnForkError(s, ok) == s \in ShutdownSignals \/ ~ok

\* isExit of the signal loop: set in the case of SIGINT, SIGTERM and SIGQUIT only
IsExit(s, ok) == s \in ShutdownSignals

\* a sendSignalToWorkers that starts a goroutine for a nil worker too
TasksForEverySlot(p, s) ==
    IF s \in ShutdownSignals THEN [k \in Cores |-> "signal"] ELSE task[p]

\* a sendSignalToWorkers that leaves out the workers that have ended
TasksForLiveWorkers(p, s) ==
    IF s \in ShutdownSignals
    THEN [k \in Cores |-> IF Alive(workers[p][k]) THEN "signal" ELSE "none"]
    ELSE task[p]

\* a signal loop that calls sendSignalToWorkers in the case of SIGUSR2 too
TasksForAnySignal(p, s) ==
    [k \in Cores |-> IF workers[p][k] = Nil THEN "none" ELSE "signal"]

\* the switch of the signal loop: sendSignalToWorkers, which starts one
\* goroutine per non-nil worker, is called in the case of SIGINT, SIGTERM
\* and SIGQUIT only
TasksFor(p, s) ==
    IF s \in ShutdownSignals
    THEN [k \in Cores |-> IF workers[p][k] = Nil THEN "none" ELSE "signal"]
    ELSE task[p]

\* a signal loop that goes on receiving while sendSignalToWorkers waits
LoopReceivesWhileExiting(p) == pc[p] \in {"Running", "Exiting"} /\ upgrading[p] = "no"

\* "sig = <-sigChan" is reached only at the top of the loop: the cases run
\* in the loop itself and sendSignalToWorkers is followed by break
LoopReceives(p) == pc[p] = "Running" /\ upgrading[p] = "no"

\* sendSignalToWorkers(workers, sig): the signal passed on is the one received
SignalForWorkers(p) == sig[p]

\* the signal loop receives SIGINT, SIGTERM or SIGQUIT: sendSignalToWorkers
\* starts one goroutine per non-nil worker and waits for them
MainShutdown(p) ==
    /\ LoopReceives(p)
    /\ sigChan[p] # <<>>
    /\ Head(sigChan[p]) \in ShutdownSignals
    /\ sig' = [sig EXCEPT ![p] = Head(sigChan[p])]
    /\ sigChan' = [sigChan EXCEPT ![p] = Tail(@)]
    /\ acted' = [acted EXCEPT ![p].shutdown = @ + 1]
    /\ task' = [task EXCEPT ![p] = TasksFor(p, Head(sigChan[p]))]
    /\ pc' = [pc EXCEPT ![p] = IF IsExit(Head(sigChan[p]), TRUE) THEN "Exiting"
                               ELSE "Running"]
    /\ UNCHANGED <<wvars, numCPU, procLimit, upgrading, environ, isMainProcess, workerCpuCore, OnSIGUSR2, workers, idx,
                   notified, grace, timer, nextPid, extCount,
                   logged, given, forks, sent, hookCalls, upgradeLive, elapsed>>

\* the workers of p's pool that are serving
ServingWorkers(p) == {k \in Cores : workers[p][k] # Nil /\ pc[workers[p][k]] = "Serving"}

\* a hook call without the deferred recover: a panic ends the process
ForkReachedUnlessPanic(panics) == ~panics

\* the hook is called in a function literal whose deferred function
\* recovers: control reaches forkProcess whether or not the hook panicked
ForkReached(panics) == TRUE

\* the deferred function logs what recover() returned, nil when the hook
\* returned normally
HookLog(p, panics) ==
    IF OnSIGUSR2 = "nil" THEN {}
    ELSE IF panics THEN {<<p, "OnSIGUSR2 hook panicked: value">>}
    ELSE {<<p, "OnSIGUSR2 hook panicked: <nil>">>}

\* the signal loop receives SIGUSR2 and enters its case: the hook is next
\* when one is set, forkProcess otherwise
MainUpgrade(p) ==
    /\ LoopReceives(p)
    /\ sigChan[p] # <<>>
    /\ Head(sigChan[p]) = "SIGUSR2"
    /\ sig' = [sig EXCEPT ![p] = "SIGUSR2"]
    /\ sigChan' = [sigChan EXCEPT ![p] = Tail(@)]
    /\ acted' = [acted EXCEPT ![p].upgrade = @ + 1]
    /\ task' = [task EXCEPT ![p] = TasksFor(p, "SIGUSR2")]
    /\ upgrading' = [upgrading EXCEPT ![p] = IF OnSIGUSR2 = "nil" THEN "fork" ELSE "hook"]
    /\ UNCHANGED <<wvars, numCPU, procLimit, pc, environ, isMainProcess, workerCpuCore, OnSIGUSR2,
                   workers, idx, notified, grace, timer, nextPid, extCount,
                   logged, given, forks, sent, hookCalls, upgradeLive, elapsed>>

\* the SIGUSR2 case calls the host's hook, which returns or panics after a
\* time of its own; the deferred function recovers and logs either way
MainUpgradeHook(p) ==
    /\ pc[p] = "Running"
    /\ upgrading[p] = "hook"
    /\ hookCalls' = [hookCalls EXCEPT ![p] = @ + 1]
    /\ LET panics == (OnSIGUSR2 = "panics") IN
         IF ForkReached(panics)
         THEN /\ logged' = logged \cup HookLog(p, panics)
              /\ upgrading' = [upgrading EXCEPT ![p] = "fork"]
              /\ UNCHANGED pc
         ELSE /\ pc' = [pc EXCEPT ![p] = "Killed"]
              /\ UNCHANGED <<logged, upgrading>>
    /\ UNCHANGED <<wvars, numCPU, procLimit, environ, isMainProcess, workerCpuCore, OnSIGUSR2,
                   workers, idx, notified, sigChan, sig, task, grace, timer, nextPid, extCount,
                   given, forks, sent, acted, upgradeLive, elapsed>>

\* the SIGUSR2 case calls forkProcess for a new main process and logs its
\* outcome; the loop goes on
MainUpgradeFork(p) ==
    /\ pc[p] = "Running"
    /\ upgrading[p] = "fork"
    /\ upgrading' = [upgrading EXCEPT ![p] = "no"]
    /\ \E ok \in ForkOutcomes :
         /\ Fork(p, "main", UpgradeEnvVals(p), ok)
         /\ forks' = [forks EXCEPT ![p].main = @ + 1]
         /\ pc' = [ForkPc(p, UpgradeEnvVals(p), ok) EXCEPT
                     ![p] = IF IsExit("SIGUSR2", ok) THEN "Exiting" ELSE "Running"]
         /\ upgradeLive' = [upgradeLive EXCEPT
                              ![p] = @ \/ (ok /\ ServingWorkers(p) # {})]
         /\ logged' = IF ok THEN logged
                      ELSE logged \cup {<<p, "could not start new main process">>}
    /\ UNCHANGED <<wvars, numCPU, procLimit, OnSIGUSR2, workers, idx, notified, sigChan, sig,
                   task, grace, timer, extCount, sent, acted, hookCalls, elapsed>>

\* a goroutine that goes on to p.Wait() whatever p.Signal returned
AfterSignalAlwaysWait(ok) == "wait"

\* "if err := p.Signal(sig); err != nil { log } else if pState, err :=
\* p.Wait() ...": where the goroutine is after p.Signal has returned
AfterSignal(ok) == IF ok THEN "wait" ELSE "sigfail"

\* a goroutine of sendSignalToWorkers: p.Signal(sig); on an error it logs
\* and is done, otherwise it goes on to p.Wait()
TaskSignal(p, k) ==
    /\ pc[p] = "Exiting"
    /\ task[p][k] = "signal"
    /\ \E ok \in SignalOutcomes(workers[p][k]) :
         IF ok
         THEN /\ pc' = DeliverPc(pc, workers[p][k], SignalForWorkers(p))
              /\ sigChan' = DeliverChan(sigChan, workers[p][k], SignalForWorkers(p))
              /\ sent' = RecordSent(p, workers[p][k], SignalForWorkers(p))
              /\ task' = [task EXCEPT ![p][k] = AfterSignal(ok)]
              /\ UNCHANGED logged
         ELSE /\ logged' = logged \cup {<<p, "could not send signal to worker">>}
              /\ task' = [task EXCEPT ![p][k] = AfterSignal(ok)]
              /\ UNCHANGED <<pc, sigChan, sent>>
    /\ UNCHANGED <<wvars, numCPU, procLimit, upgrading, environ, isMainProcess, workerCpuCore, OnSIGUSR2, workers, idx,
                   notified, sig, grace, timer, nextPid, extCount,
                   given, forks, acted, hookCalls, upgradeLive, elapsed>>

\* a goroutine of sendSignalToWorkers: p.Wait() returns once the worker has
\* ended, with its state or with an error
TaskWait(p, k) ==
    /\ pc[p] = "Exiting"
    /\ task[p][k] = "wait"
    /\ ~Alive(workers[p][k])
    /\ \E ok \in BOOLEAN :
         /\ logged' = IF ok THEN logged ELSE logged \cup {<<p, "waiting failed">>}
         /\ task' = [task EXCEPT ![p][k] = IF ok THEN "done" ELSE "waitfail"]
    /\ UNCHANGED <<wvars, numCPU, procLimit, upgrading, pc, environ, isMainProcess, workerCpuCore, OnSIGUSR2, workers,
                   idx, notified, sigChan, sig, grace, timer, nextPid, extCount,
                   given, forks, sent, acted, hookCalls, upgradeLive, elapsed>>

\* goroutines that call wg.Done() only after they have observed the exit
TaskOverOnExitOnly(x) == x = "done"

\* the goroutines of sendSignalToWorkers that have called wg.Done()
TaskOver(x) == x \in {"done", "sigfail", "waitfail"}

\* a wg.Wait() that is over as soon as one goroutine is done
WaitGroupAnyDone(p) ==
    \/ \A k \in Cores : task[p][k] = "none"
    \/ \E k \in Cores : TaskOver(task[p][k])

\* wg.Wait(): every goroutine started has called wg.Done()
WaitGroupDone(p) == \A k \in Cores : task[p][k] = "none" \/ TaskOver(task[p][k])

\* wg.Wait() is over: StartMainProcess returns "signal received: <sig>" and
\* the host program ends (log.Fatalln in the documented use)
MainReturn(p) ==
    /\ pc[p] = "Exiting"
    /\ WaitGroupDone(p)
    /\ pc' = [pc EXCEPT ![p] = "Returned"]
    /\ UNCHANGED <<wvars, numCPU, procLimit, upgrading, environ, isMainProcess, workerCpuCore, OnSIGUSR2, workers, idx,
                   notified, sigChan, sig, task, grace, timer, nextPid, extCount, hist>>

\* somebody outside the pack sends a signal to a main process that listens
\* for signals
ExternalSignal(p, s) ==
    /\ extCount < MaxExtSignals
    /\ pc[p] \in {"Running", "Exiting"}
    /\ extCount' = extCount + 1
    /\ pc' = DeliverPc(pc, p, s)
    /\ sigChan' = DeliverChan(sigChan, p, s)
    /\ UNCHANGED <<wvars, numCPU, procLimit, upgrading, environ, isMainProcess, workerCpuCore, OnSIGUSR2, workers, idx,
                   notified, sig, task, grace, timer, nextPid, hist>>

(* ------------------- the worker's part of an entry point ---------------- *)

\* the variables of StartMainProcess, which the worker's part leaves alone
mainvars == <<numCPU, procLimit, upgrading, environ, isMainProcess, workerCpuCore, OnSIGUSR2, workers, idx, sig,
              task, grace, timer, nextPid, given, forks, sent, acted, hookCalls,
              upgradeLive, elapsed>>

\* strings.Join(errMsg, ";")
RECURSIVE Join(_)
Join(errMsg) ==
    IF Len(errMsg) = 0 THEN <<>>
    ELSE IF Len(errMsg) = 1 THEN <<errMsg[1]>>
    ELSE <<errMsg[1], ";">> \o Join(Tail(errMsg))

\* ListenAndServeHttp and ListenAndServeGRPC: if server == nil, return
\* errors.New("nil server passed"); ListenAndServeTCP has no such argument
EntryCheckServer(w) ==
    /\ pc[w] = "Setup"
    /\ wk[w].step = "entry"
    /\ IF entry.adapter \in {"http", "grpc"} /\ entry.server = "nil"
       THEN /\ wk' = [wk EXCEPT ![w].ret = <<"nil server passed">>]
            /\ pc' = [pc EXCEPT ![w] = "Returned"]
       ELSE /\ wk' = [wk EXCEPT ![w].step = "runtime"]
            /\ UNCHANGED pc
    /\ UNCHANGED <<mainvars, entry, notified, sigChan, extCount, logged>>

\* setupWorkerRuntime: the error of system.SetAffinity is logged and returned
AffinityErrorReturned(affOk) == ~affOk

\* setupWorkerRuntime: strconv.Atoi(workerCpuCore), system.SetAffinity,
\* runtime.GOMAXPROCS(1); the entry point returns the error it returns
SetupWorkerRuntime(w) ==
    /\ pc[w] = "Setup"
    /\ wk[w].step = "runtime"
    /\ IF ~Atoi(workerCpuCore[w]).ok
       THEN /\ wk' = [wk EXCEPT ![w].ret = <<"strconv.Atoi: invalid syntax">>]
            /\ pc' = [pc EXCEPT ![w] = "Returned"]
            /\ UNCHANGED logged
       ELSE \E affOk \in BOOLEAN :
              /\ logged' = IF affOk THEN logged
                           ELSE logged \cup {<<w, "could not set affinity">>}
              /\ IF AffinityErrorReturned(affOk)
                 THEN /\ wk' = [wk EXCEPT ![w].affinity = "refused",
                                          ![w].ret = <<"sched_setaffinity error">>]
                      /\ pc' = [pc EXCEPT ![w] = "Returned"]
                 ELSE /\ wk' = [wk EXCEPT
                                  ![w].affinity = IF affOk THEN "pinned" ELSE "refused",
                                  ![w].maxprocs = "1",
                                  ![w].step = "listener"]
                      /\ UNCHANGED pc
    /\ UNCHANGED <<mainvars, entry, notified, sigChan, extCount>>

\* a Control function that sets SO_REUSEADDR only
OptionsRequestedAddrOnly == {"SO_REUSEADDR"}

\* the options the Control function of getListenerWithSocketOptions sets
OptionsRequested == {"SO_REUSEADDR", "SO_REUSEPORT"}

\* errMsg of the Control function: the error of c.Control, of the
\* SO_REUSEADDR call and of the SO_REUSEPORT call, in this order
ControlErrMsg(ctrlErr, failed) ==
    (IF ctrlErr THEN <<"control error">> ELSE <<>>)
    \o (IF "SO_REUSEADDR" \in failed THEN <<"SO_REUSEADDR error">> ELSE <<>>)
    \o (IF "SO_REUSEPORT" \in failed THEN <<"SO_REUSEPORT error">> ELSE <<>>)

\* the kernel's bind: with another socket bound to the address it succeeds
\* only if that socket and the new one both have SO_REUSEPORT set
AddrInUse(w, opts) ==
    \E q \in Pids \ {w} :
        /\ wk[q].listener = "open"
        /\ AlivePc(pc[q])
        /\ ~("SO_REUSEPORT" \in wk[q].opts /\ "SO_REUSEPORT" \in opts)

\* getListenerWithSocketOptions when Listen returns an error: l is nil,
\* and l.Addr() in the logging statement under "if err != nil" panics
ListenError(w, err) ==
    /\ wk' = [wk EXCEPT ![w].lerr = err]
    /\ pc' = [pc EXCEPT ![w] = "Panicked"]

\* getListenerWithSocketOptions: the Control function sets the options on
\* the descriptor and returns the joined errors; Listen then binds
GetListener(w) ==
    /\ pc[w] = "Setup"
    /\ wk[w].step = "listener"
    /\ \E ctrlErr \in BOOLEAN, failed \in SUBSET OptionsRequested, bindErr \in BOOLEAN :
         /\ ctrlErr => (failed = {} /\ ~bindErr)
         /\ (failed # {}) => ~bindErr
         /\ LET opts == IF ctrlErr THEN {} ELSE OptionsRequested \ failed
                errMsg == ControlErrMsg(ctrlErr, failed)
            IN IF Len(errMsg) > 0 THEN ListenError(w, Join(errMsg))
               ELSE IF AddrInUse(w, opts) THEN ListenError(w, <<"address already in use">>)
               ELSE IF bindErr THEN ListenError(w, <<"bind error">>)
               ELSE /\ wk' = [wk EXCEPT ![w].listener = "open", ![w].opts = opts,
                                        ![w].step = "serve"]
                    /\ UNCHANGED pc
    /\ UNCHANGED <<mainvars, entry, notified, sigChan, extCount, logged>>

\* the adapters whose entry point starts a goroutine that waits for signals
HasSignalGoroutine(adapter) == adapter \in {"http", "grpc"}

\* the entry point starts the signal goroutine (ListenAndServeHttp and
\* ListenAndServeGRPC only) and calls Serve, or enters the accept loop
StartServing(w) ==
    /\ pc[w] = "Setup"
    /\ wk[w].step = "serve"
    /\ wk' = [wk EXCEPT ![w].step = "serving",
                        ![w].handler = IF HasSignalGoroutine(entry.adapter)
                                       THEN "starting" ELSE "none"]
    /\ pc' = [pc EXCEPT ![w] = "Serving"]
    /\ UNCHANGED <<mainvars, entry, notified, sigChan, extCount, logged>>

\* the signal goroutine: make(chan os.Signal, 1), signal.Notify
SignalNotify(w) ==
    /\ Alive(w)
    /\ wk[w].handler = "starting"
    /\ notified' = [notified EXCEPT ![w] = WorkerNotifySet]
    /\ wk' = [wk EXCEPT ![w].handler = "waiting"]
    /\ UNCHANGED <<mainvars, entry, pc, sigChan, extCount, logged>>

\* the server accepts a connection and starts to handle it
WorkerAccept(w) ==
    /\ Alive(w)
    /\ wk[w].listener = "open"
    /\ wk[w].step = "serving"
    /\ wk[w].inflight + wk[w].completed + wk[w].aborted < MaxConns
    /\ wk' = [wk EXCEPT ![w].inflight = @ + 1]
    /\ UNCHANGED <<mainvars, entry, pc, notified, sigChan, extCount, logged>>

\* the handling of a connection comes to its end
WorkerFinish(w) ==
    /\ Alive(w)
    /\ wk[w].inflight > 0
    /\ wk' = [wk EXCEPT ![w].inflight = @ - 1, ![w].completed = @ + 1]
    /\ UNCHANGED <<mainvars, entry, pc, notified, sigChan, extCount, logged>>

\* a worker that serves and, where the entry point has a signal goroutine,
\* has registered for signals
ServingRegistered(w) ==
    /\ pc[w] = "Serving"
    /\ wk[w].handler = "waiting" \/ ~HasSignalGoroutine(entry.adapter)

\* SIGINT, SIGTERM or SIGQUIT is sent to a worker, as its main process
\* does at shutdown, or SIGUSR2, as an operator may; a worker the signal
\* ends loses its connections
WorkerSignal(w, s) ==
    /\ extCount < MaxExtSignals
    /\ pc[w] \in {"Setup", "Serving", "ShuttingDown"}
    /\ extCount' = extCount + 1
    /\ pc' = DeliverPc(pc, w, s)
    /\ sigChan' = DeliverChan(sigChan, w, s)
    /\ wk' = [wk EXCEPT
                ![w].aborted = IF DeliverPc(pc, w, s)[w] = "Killed" THEN wk[w].inflight ELSE @,
                ![w].sigServing = @ \/ (s \in ShutdownSignals /\ ServingRegistered(w)),
                ![w].usr2 = IF s = "SIGUSR2" THEN @ + 1 ELSE @,
                ![w].usr2Serving = @ \/ (s = "SIGUSR2" /\ ServingRegistered(w))]
    /\ UNCHANGED <<mainvars, entry, notified, logged>>

\* the signal goroutine: sig := <-sigChan
HandlerRecv(w) ==
    /\ Alive(w)
    /\ wk[w].handler = "waiting"
    /\ sigChan[w] # <<>>
    /\ sigChan' = [sigChan EXCEPT ![w] = Tail(@)]
    /\ wk' = [wk EXCEPT ![w].handler = "hook"]
    /\ pc' = [pc EXCEPT ![w] = "ShuttingDown"]
    /\ UNCHANGED <<mainvars, entry, notified, extCount, logged>>

\* a hook call without the deferred recover: a panic ends the process
StopReachedUnlessPanic(panics) == ~panics

\* OnServerShutdown is called in a function literal whose deferred function
\* recovers: control reaches the graceful stop whether or not it panicked
StopReached(panics) == TRUE

\* the signal goroutine: the hook when one is set; the deferred function
\* logs what recover() returned
HandlerHook(w) ==
    /\ Alive(w)
    /\ wk[w].handler = "hook"
    /\ IF entry.OnServerShutdown = "nil"
       THEN /\ wk' = [wk EXCEPT ![w].handler = "stop"]
            /\ UNCHANGED <<pc, logged>>
       ELSE LET panics == (entry.OnServerShutdown = "panics") IN
            IF StopReached(panics)
            THEN /\ wk' = [wk EXCEPT ![w].handler = "stop", ![w].hookCalls = @ + 1]
                 /\ logged' = logged \cup
                      {<<w, IF panics THEN "OnServerShutdown hook panicked: value"
                            ELSE "OnServerShutdown hook panicked: <nil>">>}
                 /\ UNCHANGED pc
            ELSE /\ wk' = [wk EXCEPT ![w].handler = "crashed", ![w].hookCalls = @ + 1,
                                     ![w].aborted = wk[w].inflight]
                 /\ pc' = [pc EXCEPT ![w] = "Panicked"]
                 /\ UNCHANGED logged
    /\ UNCHANGED <<mainvars, entry, notified, sigChan, extCount>>

\* the signal goroutine calls server.Shutdown or server.GracefulStop: the
\* listener is closed and the call waits for the connections in flight
HandlerStop(w) ==
    /\ Alive(w)
    /\ wk[w].handler = "stop"
    /\ wk' = [wk EXCEPT ![w].handler = "draining", ![w].stopBegun = TRUE,
                        ![w].listener = "closed"]
    /\ UNCHANGED <<mainvars, entry, pc, notified, sigChan, extCount, logged>>

\* a signal goroutine that receives from sigChan in a loop
HandlerAfterStopLoop == "waiting"

\* the signal goroutine ends after the graceful stop: "sig := <-sigChan"
\* is executed once
HandlerAfterStop == "done"

\* server.Shutdown or server.GracefulStop returns: no connection is in flight
HandlerDrained(w) ==
    /\ Alive(w)
    /\ wk[w].handler = "draining"
    /\ wk[w].inflight = 0
    /\ wk' = [wk EXCEPT ![w].handler = HandlerAfterStop]
    /\ UNCHANGED <<mainvars, entry, pc, notified, sigChan, extCount, logged>>

\* Serve returns once the graceful stop has begun (http.Server.Serve does
\* so at once, with ErrServerClosed), the entry point returns its result
\* and the host program ends, with the connections still in flight
ServeReturns(w) ==
    /\ pc[w] = "ShuttingDown"
    /\ wk[w].stopBegun
    /\ wk' = [wk EXCEPT ![w].ret = <<"server closed">>, ![w].aborted = wk[w].inflight]
    /\ pc' = [pc EXCEPT ![w] = "Returned"]
    /\ UNCHANGED <<mainvars, entry, notified, sigChan, extCount, logged>>

(* ------------- the worker's part in the runs of a whole pack ------------ *)

\* ListenAndServeHttp and ListenAndServeGRPC return at once when server == nil
NilServerRefused == entry.adapter \in {"http", "grpc"} /\ entry.server = "nil"

\* a worker's entry point from its first statement to Serve, when nothing
\* fails: the server check, setupWorkerRuntime (strconv.Atoi accepts the
\* core number, system.SetAffinity pins the process, GOMAXPROCS(1)),
\* getListenerWithSocketOptions (both options set, bind), the go statement
\* of the signal goroutine, and the call of Serve
WorkerServe(w) ==
    /\ pc[w] = "Setup"
    /\ wk[w].step = "entry"
    /\ ~NilServerRefused
    /\ Atoi(workerCpuCore[w]).ok
    /\ ~AddrInUse(w, OptionsRequested)
    /\ wk' = [wk EXCEPT ![w].affinity = "pinned",
                        ![w].maxprocs = "1",
                        ![w].listener = "open",
                        ![w].opts = OptionsRequested,
                        ![w].step = "serving",
                        ![w].handler = IF HasSignalGoroutine(entry.adapter)
                                       THEN "starting" ELSE "none"]
    /\ pc' = [pc EXCEPT ![w] = "Serving"]
    /\ UNCHANGED <<mainvars, entry, notified, sigChan, extCount, logged>>

\* the error Listen returns to getListenerWithSocketOptions in the runs of
\* a pack, where the Control function sets both options without an error:
\* the error of bind
ListenErrors(w) ==
    IF AddrInUse(w, OptionsRequested) THEN {<<"address already in use">>}
    ELSE {<<"bind error">>}

\* how a worker's entry point ends before Serve, as the control state, the
\* worker's state and the line logged: the server check fails; or
\* setupWorkerRuntime returns the error of strconv.Atoi, or logs and
\* returns the error of system.SetAffinity, and the entry point returns
\* it; or Listen fails and getListenerWithSocketOptions panics in l.Addr()
\* on its nil listener
SetupFailures(w) ==
    IF NilServerRefused
    THEN {[pc |-> "Returned", log |-> {},
           wk |-> [wk[w] EXCEPT !.ret = <<"nil server passed">>]]}
    ELSE IF ~Atoi(workerCpuCore[w]).ok
    THEN {[pc |-> "Returned", log |-> {},
           wk |-> [wk[w] EXCEPT !.step = "runtime",
                                !.ret = <<"strconv.Atoi: invalid syntax">>]]}
    ELSE {[pc |-> "Returned", log |-> {<<w, "could not set affinity">>},
           wk |-> [wk[w] EXCEPT !.step = "runtime", !.affinity = "refused",
                                !.ret = <<"sched_setaffinity error">>]]}
         \cup {[pc |-> "Panicked", log |-> {},
                wk |-> [wk[w] EXCEPT !.step = "listener", !.affinity = "pinned",
                                     !.maxprocs = "1", !.lerr = err]] :
                  err \in ListenErrors(w)}

\* a worker's entry point does not get through the server check,
\* setupWorkerRuntime and getListenerWithSocketOptions and the host program
\* ends
WorkerSetupFail(w) ==
    /\ pc[w] = "Setup"
    /\ wk[w].step = "entry"
    /\ \E end \in SetupFailures(w) :
         /\ pc' = [pc EXCEPT ![w] = end.pc]
         /\ wk' = [wk EXCEPT ![w] = end.wk]
         /\ logged' = logged \cup end.log
    /\ UNCHANGED <<mainvars, entry, notified, sigChan, extCount>>

(* --------------------------- specifications ---------------------------- *)

Next ==
    \/ \E p \in Pids : MainSpawn(p)
    \/ \E p \in Pids : MainListen(p)
    \/ Tick
    \/ \E p \in Pids : GraceFire(p)
    \/ \E p \in Pids : MainShutdown(p)
    \/ \E p \in Pids : MainUpgrade(p)
    \/ \E p \in Pids : MainUpgradeHook(p)
    \/ \E p \in Pids : MainUpgradeFork(p)
    \/ \E p \in Pids, k \in Cores : TaskSignal(p, k)
    \/ \E p \in Pids, k \in Cores : TaskWait(p, k)
    \/ \E p \in Pids : MainReturn(p)
    \/ \E w \in Pids : WorkerServe(w)
    \/ \E w \in Pids : SignalNotify(w)
    \/ \E w \in Pids : WorkerSetupFail(w)
    \/ \E w \in Pids : HandlerRecv(w)
    \/ \E w \in Pids : HandlerHook(w)
    \/ \E w \in Pids : HandlerStop(w)
    \/ \E w \in Pids : HandlerDrained(w)
    \/ \E w \in Pids : ServeReturns(w)
    \/ \E p \in Pids, s \in {"SIGUSR2", "SIGINT"} : ExternalSignal(p, s)

\* the runs with upgrades: a pack started in StaleEnv with a hook that
\* panics, whose operator sends SIGUSR2 and SIGINT to main processes
Spec == Init /\ [][Next]_vars

NextPool ==
    \/ \E p \in Pids : MainSpawn(p)
    \/ \E p \in Pids : MainListen(p)
    \/ Tick
    \/ \E p \in Pids : GraceFire(p)
    \/ \E p \in Pids : MainShutdown(p)
    \/ \E p \in Pids, k \in Cores : TaskSignal(p, k)
    \/ \E p \in Pids, k \in Cores : TaskWait(p, k)
    \/ \E p \in Pids : MainReturn(p)
    \/ \E w \in Pids : WorkerServe(w)
    \/ \E w \in Pids : SignalNotify(w)
    \/ \E w \in Pids : WorkerSetupFail(w)
    \/ \E w \in Pids : HandlerRecv(w)
    \/ \E w \in Pids : HandlerHook(w)
    \/ \E w \in Pids : HandlerStop(w)
    \/ \E w \in Pids : HandlerDrained(w)
    \/ \E w \in Pids : ServeReturns(w)
    \/ \E p \in Pids, s \in ShutdownSignals : ExternalSignal(p, s)

\* the runs of one pack on the larger host: no SIGUSR2 is sent
SpecPool == InitPool /\ [][NextPool]_vars

NextRole ==
    \/ \E p \in Pids : ProcessStart(p)
    \/ \E p \in Pids : MainSpawn(p)
    \/ \E p \in Pids : MainListen(p)
    \/ \E w \in Pids : WorkerServe(w)
    \/ \E w \in Pids : SignalNotify(w)
    \/ \E w \in Pids : WorkerSetupFail(w)

NextHook ==
    \/ \E p \in Pids : MainSpawn(p)
    \/ \E p \in Pids : MainListen(p)
    \/ \E p \in Pids : MainShutdown(p)
    \/ \E p \in Pids : MainUpgrade(p)
    \/ \E p \in Pids : MainUpgradeHook(p)
    \/ \E p \in Pids : MainUpgradeFork(p)
    \/ \E p \in Pids, k \in Cores : TaskSignal(p, k)
    \/ \E p \in Pids, k \in Cores : TaskWait(p, k)
    \/ \E p \in Pids : MainReturn(p)
    \/ \E w \in Pids : WorkerServe(w)
    \/ \E w \in Pids : SignalNotify(w)
    \/ \E w \in Pids : WorkerSetupFail(w)
    \/ \E w \in Pids : HandlerRecv(w)
    \/ \E w \in Pids : HandlerHook(w)
    \/ \E w \in Pids : HandlerStop(w)
    \/ \E w \in Pids : HandlerDrained(w)
    \/ \E w \in Pids : ServeReturns(w)
    \/ \E p \in Pids, s \in {"SIGUSR2", "SIGINT"} : ExternalSignal(p, s)

\* the runs with upgrades up to the end of the first grace interval, for
\* a host without a hook, with a hook that returns, with a hook that panics
SpecHook == InitHook /\ [][NextHook]_vars

NextWorker ==
    \/ \E w \in Pids : ProcessStart(w)
    \/ \E w \in Pids : EntryCheckServer(w)
    \/ \E w \in Pids : SetupWorkerRuntime(w)
    \/ \E w \in Pids : GetListener(w)
    \/ \E w \in Pids : StartServing(w)
    \/ \E w \in Pids : SignalNotify(w)
    \/ \E w \in Pids : WorkerAccept(w)
    \/ \E w \in Pids : WorkerFinish(w)
    \/ \E w \in Pids, s \in ShutdownSignals \cup {"SIGUSR2"} : WorkerSignal(w, s)
    \/ \E w \in Pids : HandlerRecv(w)
    \/ \E w \in Pids : HandlerHook(w)
    \/ \E w \in Pids : HandlerStop(w)
    \/ \E w \in Pids : HandlerDrained(w)
    \/ \E w \in Pids : ServeReturns(w)

\* the runs of one process that calls an entry point
SpecWorker == InitWorker /\ [][NextWorker]_vars

NextBind ==
    \/ \E p \in Pids : MainSpawn(p)
    \/ \E p \in Pids : MainListen(p)
    \/ \E w \in Pids : EntryCheckServer(w)
    \/ \E w \in Pids : SetupWorkerRuntime(w)
    \/ \E w \in Pids : GetListener(w)
    \/ \E w \in Pids : StartServing(w)

\* the start of one pack up to the workers' Serve: every worker builds its
\* listener on the same address
SpecBind == InitBind /\ [][NextBind]_vars

\* the start of a pack in each environment of RoleEnvs
SpecRole == InitRole /\ [][NextRole]_vars

\* the steps the Go scheduler and the OS take sooner or later: every step
\* of a process of the pack, and the passing of time
Progress ==
    \/ \E p \in Pids : MainSpawn(p)
    \/ \E p \in Pids : MainListen(p)
    \/ Tick
    \/ \E p \in Pids : GraceFire(p)
    \/ \E p \in Pids : MainShutdown(p)
    \/ \E p \in Pids : MainUpgrade(p)
    \/ \E p \in Pids : MainUpgradeHook(p)
    \/ \E p \in Pids : MainUpgradeFork(p)
    \/ \E p \in Pids, k \in Cores : TaskSignal(p, k)
    \/ \E p \in Pids, k \in Cores : TaskWait(p, k)
    \/ \E p \in Pids : MainReturn(p)
    \/ \E w \in Pids : WorkerServe(w)
    \/ \E w \in Pids : SignalNotify(w)
    \/ \E w \in Pids : HandlerRecv(w)
    \/ \E w \in Pids : HandlerHook(w)
    \/ \E w \in Pids : HandlerStop(w)
    \/ \E w \in Pids : HandlerDrained(w)
    \/ \E w \in Pids : ServeReturns(w)

\* the runs with upgrades in which no process of the pack stops for ever
FairSpec == Spec /\ WF_vars(Progress)

\* a pack on the larger host started by hand, with the README's program
InitShutdown == InitWith(PoolCPUs, {<<PathEntry>>}, {"nil"}, TRUE) /\ entry = PackEntry /\ procLimit = MaxProcs

NextShutdown ==
    \/ \E p \in Pids : MainSpawn(p)
    \/ \E p \in Pids : MainListen(p)
    \/ \E p \in Pids : MainShutdown(p)
    \/ \E p \in Pids, k \in Cores : TaskSignal(p, k)
    \/ \E p \in Pids, k \in Cores : TaskWait(p, k)
    \/ \E p \in Pids : MainReturn(p)
    \/ \E w \in Pids : WorkerServe(w)
    \/ \E w \in Pids : SignalNotify(w)
    \/ \E w \in Pids : WorkerSetupFail(w)
    \/ \E w \in Pids : HandlerRecv(w)
    \/ \E w \in Pids : HandlerHook(w)
    \/ \E w \in Pids : HandlerStop(w)
    \/ \E w \in Pids : HandlerDrained(w)
    \/ \E w \in Pids : ServeReturns(w)
    \/ \E p \in Pids : ExternalSignal(p, "SIGTERM")

\* the start and the shutdown of one pack: SIGTERM is sent to its main process
SpecShutdown == InitShutdown /\ [][NextShutdown]_vars

\* the runs of SpecShutdown in which no process of the pack stops for ever
FairShutdown == SpecShutdown /\ WF_vars(Progress)

\* a pack started by hand on a host that has room for a second
\* generation; the host program sets no hook, so that the SIGUSR2 case goes
\* from the receive to forkProcess
InitGen ==
    /\ InitWith(UpgradeCPUs, {<<PathEntry>>}, {"nil"}, TRUE)
    /\ procLimit = GenProcs
    /\ entry = PackEntry

NextGen ==
    \/ \E p \in Pids : MainSpawn(p)
    \/ \E p \in Pids : MainListen(p)
    \/ Tick
    \/ \E p \in Pids : GraceFire(p)
    \/ \E p \in Pids : MainShutdown(p)
    \/ \E p \in Pids : MainUpgrade(p)
    \/ \E p \in Pids : MainUpgradeFork(p)
    \/ \E p \in Pids, k \in Cores : TaskSignal(p, k)
    \/ \E p \in Pids, k \in Cores : TaskWait(p, k)
    \/ \E p \in Pids : MainReturn(p)
    \/ \E w \in Pids : WorkerServe(w)
    \/ \E w \in Pids : SignalNotify(w)
    \/ \E w \in Pids : WorkerSetupFail(w)
    \/ \E w \in Pids : HandlerRecv(w)
    \/ \E w \in Pids : HandlerHook(w)
    \/ \E w \in Pids : HandlerStop(w)
    \/ \E w \in Pids : HandlerDrained(w)
    \/ \E w \in Pids : ServeReturns(w)
    \/ \E p \in Pids : ExternalSignal(p, "SIGUSR2")

\* the runs of two generations: the operator sends SIGUSR2 to main
\* processes, and a new main process retires the one before it
SpecGen == InitGen /\ [][NextGen]_vars

\* the runs of two generations in which no process of the pack stops for ever
FairGen == SpecGen /\ WF_vars(Progress)

\* a pack started by hand on the larger host, which has room for a second
\* generation with a pool of its own; the host program sets no hook
InitGenPool ==
    /\ InitWith(PoolCPUs, {<<PathEntry>>}, {"nil"}, TRUE)
    /\ procLimit = GenPoolProcs
    /\ entry = PackEntry

\* the operator sends SIGUSR2 to the first main process only; on this host
\* system.SetAffinity and bind succeed in every worker, so that a worker
\* that was started comes to serve
NextGenPool ==
    \/ \E p \in Pids : MainSpawn(p)
    \/ \E p \in Pids : MainListen(p)
    \/ Tick
    \/ \E p \in Pids : GraceFire(p)
    \/ \E p \in Pids : MainShutdown(p)
    \/ \E p \in Pids : MainUpgrade(p)
    \/ \E p \in Pids : MainUpgradeFork(p)
    \/ \E p \in Pids, k \in Cores : TaskSignal(p, k)
    \/ \E p \in Pids, k \in Cores : TaskWait(p, k)
    \/ \E p \in Pids : MainReturn(p)
    \/ \E w \in Pids : WorkerServe(w)
    \/ \E w \in Pids : SignalNotify(w)
    \/ \E w \in Pids : HandlerRecv(w)
    \/ \E w \in Pids : HandlerHook(w)
    \/ \E w \in Pids : HandlerStop(w)
    \/ \E w \in Pids : HandlerDrained(w)
    \/ \E w \in Pids : ServeReturns(w)
    \/ ExternalSignal(FirstPid, "SIGUSR2")

\* the runs of two generations on the larger host: every pool has a slot
\* for each of its cores, and the pools of a main process and of its
\* successors serve side by side until the grace interval is over
SpecGenPool == InitGenPool /\ [][NextGenPool]_vars

(* ------------------------------- claims -------------------------------- *)

\* the slots of p's pool that hold a worker
Held(p) == {k \in Cores : workers[p][k] # Nil}

\* the Signal calls of p on w that returned nil
SentTo(p, w) == {e \in sent : e.from = p /\ e.to = w}

\* C1: shutdown fan-out.  Once a main process has left Running on SIGINT,
\* SIGTERM or SIGQUIT, a goroutine has been started for every worker its
\* pool holds; every signal it has sent to a worker of its pool is the
\* signal it received, sent once; a goroutine that waits or has observed the
\* exit has sent it; and once StartMainProcess has returned, every one of
\* the goroutines is over and a worker whose exit was observed is not alive.
C1_ShutdownFanOut ==
    \A p \in Pids :
        (isMainProcess[p] /\ pc[p] \in {"Exiting", "Returned"}) =>
            /\ sig[p] \in ShutdownSignals
            /\ \A k \in Held(p) :
                 /\ task[p][k] # "none"
                 /\ \A e \in SentTo(p, workers[p][k]) : e.sig = sig[p] /\ e.n = 1
                 /\ (task[p][k] \in {"wait", "done", "waitfail"}) =>
                        SentCount(p, workers[p][k], sig[p]) = 1
                 /\ (pc[p] = "Returned") => TaskOver(task[p][k])
                 /\ (task[p][k] = "done") => ~Alive(workers[p][k])

\* a main process with a full pool has returned after SIGQUIT, having
\* observed the exit of every worker
C1_Witness ==
    \E p \in Pids :
        /\ isMainProcess[p] /\ pc[p] = "Returned" /\ sig[p] = "SIGQUIT"
        /\ Cardinality(Held(p)) = numCPU
        /\ \A k \in Held(p) : task[p][k] = "done"

\* C2: the signal loop ends only on a shutdown signal.  A main process
\* leaves Running only by taking SIGINT, SIGTERM or SIGQUIT from sigChan,
\* and then goes to the exit path; StartMainProcess returns only from the
\* exit path of such a signal; a step in which the loop acts takes exactly
\* one signal from sigChan and acts on that one, and takes none while the
\* case of a SIGUSR2 taken before is still running.
C2_LoopEndsOnlyOnShutdown ==
    [][\A p \in Pids :
         /\ (pc[p] = "Running" /\ pc'[p] # "Running") =>
               /\ pc'[p] = "Exiting"
               /\ sigChan[p] # <<>>
               /\ Head(sigChan[p]) \in ShutdownSignals
               /\ sig'[p] = Head(sigChan[p])
               /\ acted'[p].shutdown = acted[p].shutdown + 1
         /\ (isMainProcess[p] /\ pc[p] # "Returned" /\ pc'[p] = "Returned") =>
               /\ pc[p] = "Exiting"
               /\ sig[p] \in ShutdownSignals
               /\ acted[p].shutdown = 1
         /\ (acted'[p] # acted[p]) =>
               /\ pc[p] = "Running"
               /\ upgrading[p] = "no"
               /\ sigChan[p] # <<>>
               /\ sigChan'[p] = Tail(sigChan[p])
               /\ sig'[p] = Head(sigChan[p])
               /\ acted'[p].shutdown + acted'[p].upgrade
                    = acted[p].shutdown + acted[p].upgrade + 1
               /\ (acted'[p].upgrade # acted[p].upgrade) => pc'[p] = "Running"
      ]_vars

\* a main process has returned after acting on SIGUSR2, with a hook called
\* and a new main process that could not be started, and then on SIGINT
C2_Witness ==
    \E p \in Pids :
        /\ isMainProcess[p] /\ pc[p] = "Returned" /\ sig[p] = "SIGINT"
        /\ acted[p].upgrade = 1
        /\ hookCalls[p] = 1
        /\ <<p, "OnSIGUSR2 hook panicked: value">> \in logged
        /\ <<p, "could not start new main process">> \in logged

\* the processes made by the forkProcess call of p's SIGUSR2 case
Successors(p) == {c \in Pids : given[c].kind = "main" /\ given[c].parent = p}

\* C3: every SIGUSR2 a main process acts on makes one forkProcess call
\* (the call of the SIGUSR2 whose case is still running is yet to come), and
\* a process made by that call finds in its environment, of the handshake
\* variables, only GOPHERPACK_PREV_PPID with the PID of the process that
\* made it, so that it is a main process and runs StartMainProcess.
C3_UpgradeSpawnsOneMain ==
    /\ \A p \in Pids :
         /\ forks[p].main = acted[p].upgrade - (IF upgrading[p] = "no" THEN 0 ELSE 1)
         /\ Cardinality(Successors(p)) <= forks[p].main
    /\ \A c \in Pids :
         (given[c].kind = "main") =>
            /\ Tokens(environ[c]) = <<SprintfEnv(envPrevPPID, given[c].parent)>>
            /\ Getenv(environ[c], envPPID) = <<>>
            /\ Getenv(environ[c], envCPUCore) = <<>>
            /\ Atoi(Getenv(environ[c], envPrevPPID)) = [ok |-> TRUE, val |-> given[c].parent]
            /\ isMainProcess[c]
            /\ pc[c] \notin {"Setup", "Serving", "ShuttingDown"}

\* a main process started in StaleEnv has acted on two SIGUSR2 and made two
\* new main processes, one of which is in its signal loop
C3_Witness ==
    \E p \in Pids :
        /\ given[p].kind = "none"
        /\ acted[p].upgrade = 2
        /\ forks[p].main = 2
        /\ Cardinality(Successors(p)) = 2
        /\ \E c \in Successors(p) : pc[c] = "Running"

\* C4: acting on SIGUSR2 leaves the main process in Running and its pool as
\* it is: in each step of the SIGUSR2 case (the receive, the hook, the
\* forkProcess call) the slots, the goroutines of sendSignalToWorkers, the
\* workers' control state and channels, and the signals sent are
\* unchanged, whether forkProcess succeeds or fails.
C4_UpgradeLeavesPool ==
    [][\A p \in Pids :
         (acted'[p].upgrade # acted[p].upgrade \/ upgrading'[p] # upgrading[p]) =>
            /\ pc[p] = "Running" /\ pc'[p] = "Running"
            /\ workers'[p] = workers[p]
            /\ task'[p] = task[p]
            /\ idx'[p] = idx[p]
            /\ sent' = sent
            /\ \A k \in Held(p) :
                 /\ pc'[workers[p][k]] = pc[workers[p][k]]
                 /\ sigChan'[workers[p][k]] = sigChan[workers[p][k]]
                 /\ environ'[workers[p][k]] = environ[workers[p][k]]
      ]_vars

\* a main process whose worker is serving has acted on two SIGUSR2, one
\* with a new main process started and one without, and is in Running
C4_Witness ==
    \E p \in Pids :
        /\ pc[p] = "Running"
        /\ upgrading[p] = "no"
        /\ acted[p].upgrade = 2
        /\ Cardinality(Successors(p)) = 1
        /\ <<p, "could not start new main process">> \in logged
        /\ ServingWorkers(p) # {}

\* the Signal(SIGTERM) calls of the grace goroutine of s that returned nil
GraceSent(s) ==
    {e \in sent : /\ e.from = s /\ e.sig = "SIGTERM"
                  /\ Atoi(Getenv(environ[s], envPrevPPID)).ok
                  /\ e.to = Atoi(Getenv(environ[s], envPrevPPID)).val}

\* C5: the grace goroutine of a main process exists only once the spawn
\* loop has made its numCPU forkProcess calls and the signal loop has been
\* entered; while it sleeps, the time slept and the time left make up
\* prevMainProcessGraceInterval; it has sent SIGTERM to the previous main
\* process only when it is done, after the whole interval, and at most once.
C5_TermAfterGrace ==
    \A s \in Pids :
        /\ (grace[s] # "none") =>
              /\ idx[s] = numCPU
              /\ forks[s].worker = numCPU
              /\ pc[s] # "Starting"
              /\ Getenv(environ[s], envPrevPPID) # <<>>
        /\ (grace[s] = "sleeping") =>
              elapsed[s] + timer[s] = prevMainProcessGraceInterval
        /\ (grace[s] = "done") => elapsed[s] = prevMainProcessGraceInterval
        /\ (given[s].kind = "main") =>
              /\ Cardinality(GraceSent(s)) <= 1
              /\ (GraceSent(s) # {}) => grace[s] = "done"

\* a new main process has made its forkProcess calls for workers, slept the
\* interval and sent SIGTERM to the main process that made it, which has
\* acted on it
C5_Witness ==
    \E s \in Pids :
        /\ given[s].kind = "main"
        /\ forks[s].worker = numCPU
        /\ elapsed[s] = prevMainProcessGraceInterval
        /\ \E e \in GraceSent(s) : e.to = given[s].parent
        /\ sig[given[s].parent] = "SIGTERM"
        /\ acted[given[s].parent].shutdown = 1

\* the previous main process named in s's environment is not a live process:
\* the value does not parse, or names no process, or one that has ended
NoLivePrevious(s) ==
    \/ ~Atoi(Getenv(environ[s], envPrevPPID)).ok
    \/ ~Alive(Atoi(Getenv(environ[s], envPrevPPID)).val)

\* C6: when the grace goroutine of a main process is over its sleep and the
\* previous main process is not a live process, its step changes no
\* process's control state or channel, leaves the main process where it is
\* with its pool and goroutines as they are, and only adds to the log; it
\* adds a message whenever strconv.Atoi or Signal returns an error.
C6_GoneIsOnlyLogged ==
    [][\A s \in Pids :
         (grace[s] = "sleeping" /\ grace'[s] = "done" /\ NoLivePrevious(s)) =>
            /\ pc' = pc
            /\ sigChan' = sigChan
            /\ workers' = workers
            /\ task' = task
            /\ notified' = notified
            /\ logged \subseteq logged'
            /\ \A m \in logged' \ logged : m[1] = s
            /\ (sent' = sent) => logged' # logged
      ]_vars

\* the grace goroutine of a new main process has found the main process
\* that made it gone and logged it, and the new main process is in Running
\* with its worker serving
C6_Witness ==
    \E s \in Pids :
        /\ given[s].kind = "main"
        /\ grace[s] = "done"
        /\ pc[given[s].parent] = "Returned"
        /\ <<s, "could not send SIGTERM to previous PID">> \in logged
        /\ pc[s] = "Running"
        /\ ServingWorkers(s) # {}

\* C7: from the step in which a main process with a serving worker starts
\* a new main process, and as long as it has not ended, some worker of the
\* pack is serving (stated for the runs in which nothing but the SIGTERM of
\* a new main process ends the old one).
C7_ZeroDowntime ==
    \A p \in Pids :
        ( /\ upgradeLive[p]
          /\ pc[p] \in {"Running", "Exiting"}
          /\ (pc[p] = "Exiting") => (sig[p] = "SIGTERM") )
        => \E w \in Pids : pc[w] = "Serving"

\* the state the grace goroutine of s has left when its SIGTERM has been sent
Retiring(s) ==
    /\ given[s].kind = "main"
    /\ Alive(s)
    /\ grace[s] = "done"

\* the main process that made s, and every worker of its pool, have ended
Retired(s) ==
    /\ given[s].kind = "main"
    /\ ~Alive(given[s].parent)
    /\ \A k \in Held(given[s].parent) : ~Alive(workers[given[s].parent][k])

\* C8: once a new main process, started by forkProcess, has lived through
\* the grace interval and its goroutine is done, the main process that made
\* it and all the workers of that one's pool end sooner or later.
C8_PredecessorRetires ==
    \A s \in Pids : Retiring(s) ~> Retired(s)

\* GOPHERPACK_PPID is set in env, to whatever value
Present(env, key) == Len(EntriesOf(env, key)) > 0

\* GOPHERPACK_PPID is set in env to something other than the empty string
PresentNonEmpty(env, key) ==
    \E i \in 1..Len(env) : HasPrefix(env[i], key \o <<"=">>) /\ Len(env[i]) > Len(key) + 1

\* the control states of a process that runs StartMainProcess
MainPcs == {"Starting", "Running", "Exiting"}

\* the control states of a process that runs a worker's part of an entry point
WorkerPcs == {"Setup", "Serving", "ShuttingDown"}

\* C9 as stated: a started process is a worker exactly when GOPHERPACK_PPID
\* is present in its environment.
C9_RoleByPresence ==
    \A p \in Pids :
        (pc[p] \notin {"none", "New"}) =>
            (isMainProcess[p] <=> ~Present(environ[p], envPPID))

\* C9: a started process is a worker exactly when GOPHERPACK_PPID is set
\* to a non-empty value in its environment, whatever the other handshake
\* variables are, and a main process otherwise; it runs the part of its
\* role in every state of its life.
C9_RoleByNonEmptyValue ==
    \A p \in Pids :
        (pc[p] \notin {"none", "New"}) =>
            /\ isMainProcess[p] <=> ~PresentNonEmpty(environ[p], envPPID)
            /\ isMainProcess[p] => pc[p] \notin WorkerPcs
            /\ ~isMainProcess[p] => pc[p] \notin MainPcs

\* a process started with GOPHERPACK_PPID set to the empty string, and with
\* a core number, is in the signal loop of StartMainProcess
C9_Witness ==
    \E p \in Pids :
        /\ Present(environ[p], envPPID)
        /\ Getenv(environ[p], envCPUCore) # <<>>
        /\ isMainProcess[p]
        /\ pc[p] = "Running"

\* C10: the handshake variables in the environment of a process made by
\* forkProcess are exactly the envValues of that call, in every generation,
\* and os.Getenv gives the process each of them as that call set it.
C10_TokensAreThoseGiven ==
    \A c \in Pids :
        (given[c].kind # "none") =>
            /\ Tokens(environ[c]) = given[c].envValues
            /\ \A name \in TokenNames :
                 Getenv(environ[c], name) = Getenv(given[c].envValues, name)

\* a worker made by a new main process that was made by a main process
\* started in StaleEnv: it has its own core number and no previous PID
C10_Witness ==
    \E c \in Pids :
        /\ given[c].kind = "worker"
        /\ given[given[c].parent].kind = "main"
        /\ Getenv(environ[given[given[c].parent].parent], envCPUCore) = <<"7">>
        /\ Getenv(environ[c], envCPUCore) = <<"0">>
        /\ Getenv(environ[c], envPrevPPID) = <<>>
        /\ Getenv(environ[c], envPPID) = IntToStr(given[c].parent)

\* the slots of the host: core numbers 0..numCPU-1
HostCores == {k \in Cores : k < numCPU}

\* C11: pool sizing.  The spawn loop makes one forkProcess call per
\* iteration, for the core numbers 0, 1, .. in this order and numCPU in
\* all; a slot is filled only by the call of its own number, and the
\* process in slot k was given GOPHERPACK_PPID = the main process's PID and
\* GOPHERPACK_CPU_CORE = k and reads these values.
C11_PoolSizing ==
    /\ [](\A p \in Pids :
            (isMainProcess[p] /\ pc[p] \notin {"none", "New"}) =>
               /\ forks[p].worker = idx[p]
               /\ idx[p] <= numCPU
               /\ (pc[p] # "Starting") => idx[p] = numCPU
               /\ \A k \in Cores : (k >= idx[p]) => workers[p][k] = Nil
               /\ \A k \in Held(p) :
                    /\ given[workers[p][k]].parent = p
                    /\ given[workers[p][k]].envValues
                         = <<SprintfEnv(envPPID, p), SprintfEnv(envCPUCore, k)>>
                    /\ Atoi(workerCpuCore[workers[p][k]]) = [ok |-> TRUE, val |-> k]
                    /\ Atoi(Getenv(environ[workers[p][k]], envPPID)) = [ok |-> TRUE, val |-> p]
                    /\ \A j \in Held(p) : (workers[p][j] = workers[p][k]) => j = k)
    /\ [][\A p \in Pids :
            (forks'[p].worker # forks[p].worker) =>
               /\ pc[p] = "Starting"
               /\ idx[p] < numCPU
               /\ forks'[p].worker = forks[p].worker + 1
               /\ idx'[p] = idx[p] + 1
               /\ \A k \in Cores : (k # idx[p]) => workers'[p][k] = workers[p][k]
         ]_vars

\* a main process on the larger host is in its signal loop with a worker
\* in every slot
C11_Witness ==
    \E p \in Pids :
        /\ pc[p] = "Running"
        /\ numCPU = PoolCPUs
        /\ Held(p) = HostCores
        /\ \A k \in HostCores : workerCpuCore[workers[p][k]] = IntToStr(k)

\* the processes p's pool holds
PoolOf(p) == {workers[p][k] : k \in Held(p)}

\* C12: partial-failure pool.  Whatever forkProcess calls of the spawn loop
\* have failed, the loop's next call can be made and, after the last, the
\* signal loop can be entered; a slot whose call failed is empty and the
\* failure is logged; at shutdown a goroutine exists exactly for the slots
\* that hold a worker, and the main process has signalled no process
\* outside its pool.
C12_PartialPool ==
    \A p \in Pids :
        (isMainProcess[p] /\ pc[p] \notin {"none", "New"}) =>
            /\ (pc[p] = "Starting" /\ idx[p] < numCPU) => ENABLED MainSpawn(p)
            /\ (pc[p] = "Starting" /\ idx[p] = numCPU) => ENABLED MainListen(p)
            /\ \A k \in HostCores :
                 (k < idx[p] /\ workers[p][k] = Nil) =>
                    <<p, "could not start worker">> \in logged
            /\ (pc[p] \in {"Exiting", "Returned"}) =>
                 \A k \in Cores : (task[p][k] # "none") <=> (k \in Held(p))
            /\ \A e \in sent :
                 (e.from = p /\ e.to # GraceTarget(p).val) => e.to \in PoolOf(p)

\* a main process whose first forkProcess call failed and whose last
\* succeeded has returned after signalling the one worker it had
C12_Witness ==
    \E p \in Pids :
        /\ isMainProcess[p] /\ pc[p] = "Returned"
        /\ numCPU = PoolCPUs
        /\ workers[p][0] = Nil
        /\ workers[p][numCPU - 1] # Nil
        /\ task[p][numCPU - 1] = "done"
        /\ SentCount(p, workers[p][numCPU - 1], sig[p]) = 1

\* C14: main-process hook isolation.  When a hook is set, it has been
\* called once for every SIGUSR2 the main process has acted on (but for
\* the one whose case has not yet come to the call), and never when none
\* is set; the forkProcess call of a SIGUSR2 is made only after its hook
\* call; the step of the hook call, also when the hook panics, leaves the
\* main process in Running with forkProcess next, the deferred function
\* having logged the value recovered; and the step of the forkProcess
\* call leaves it in Running with the new main process started or the
\* failure logged.
C14_HookIsolation ==
    /\ [](\A p \in Pids :
            /\ hookCalls[p] = (IF OnSIGUSR2 = "nil" THEN 0
                               ELSE acted[p].upgrade - (IF upgrading[p] = "hook" THEN 1 ELSE 0))
            /\ forks[p].main = acted[p].upgrade - (IF upgrading[p] = "no" THEN 0 ELSE 1)
            /\ (OnSIGUSR2 = "nil") => upgrading[p] # "hook"
            /\ isMainProcess[p] => pc[p] # "Killed")
    /\ [][\A p \in Pids :
            /\ (acted'[p].upgrade # acted[p].upgrade) =>
                  /\ upgrading'[p] = (IF OnSIGUSR2 = "nil" THEN "fork" ELSE "hook")
                  /\ pc'[p] = "Running"
            /\ (hookCalls'[p] # hookCalls[p]) =>
                  /\ upgrading[p] = "hook"
                  /\ hookCalls'[p] = hookCalls[p] + 1
                  /\ forks'[p] = forks[p]
                  /\ upgrading'[p] = "fork"
                  /\ pc'[p] = "Running"
                  /\ (OnSIGUSR2 = "panics") =>
                        <<p, "OnSIGUSR2 hook panicked: value">> \in logged'
            /\ (forks'[p].main # forks[p].main) =>
                  /\ upgrading[p] = "fork"
                  /\ forks'[p].main = forks[p].main + 1
                  /\ hookCalls'[p] = hookCalls[p]
                  /\ upgrading'[p] = "no"
                  /\ pc'[p] = "Running"
                  /\ (nextPid' # nextPid) => pc'[nextPid] = "Starting"
                  /\ (nextPid' = nextPid) =>
                        <<p, "could not start new main process">> \in logged'
         ]_vars

\* a main process whose hook panicked on each of two SIGUSR2 is in Running
\* and has started a new main process after the second panic
C14_Witness ==
    \E p \in Pids :
        /\ OnSIGUSR2 = "panics"
        /\ pc[p] = "Running"
        /\ hookCalls[p] = 2
        /\ <<p, "OnSIGUSR2 hook panicked: value">> \in logged
        /\ <<p, "could not start new main process">> \in logged
        /\ \E c \in Successors(p) : c = nextPid - 1

\* C13: worker hook isolation.  In a worker of ListenAndServeHttp or
\* ListenAndServeGRPC the hook is called at most once, and only when one
\* is set; once the signal goroutine has taken a signal and is past the
\* hook, a set hook has been called once, also when it panics, and the
\* process has not ended by that panic; the graceful stop begins only past
\* the hook, and a step that calls the hook is no step after its beginning.
C13_WorkerHookIsolation ==
    /\ [](\A w \in Pids :
            HasSignalGoroutine(entry.adapter) =>
               /\ wk[w].hookCalls <= 1
               /\ (entry.OnServerShutdown = "nil") => wk[w].hookCalls = 0
               /\ (wk[w].handler \in {"stop", "draining", "done"}) =>
                     wk[w].hookCalls = (IF entry.OnServerShutdown = "nil" THEN 0 ELSE 1)
               /\ (wk[w].hookCalls = 1) =>
                     /\ wk[w].handler \in {"stop", "draining", "done"}
                     /\ pc[w] # "Panicked"
               /\ wk[w].stopBegun => wk[w].handler \in {"draining", "done"})
    /\ [][\A w \in Pids :
            /\ (wk'[w].hookCalls # wk[w].hookCalls) =>
                  (~wk[w].stopBegun /\ ~wk'[w].stopBegun /\ wk[w].handler = "hook")
            /\ (wk'[w].stopBegun /\ ~wk[w].stopBegun) => wk[w].handler = "stop"
         ]_vars

\* a gRPC worker whose hook panicked has begun its graceful stop
C13_Witness ==
    \E w \in Pids :
        /\ entry.adapter = "grpc"
        /\ entry.OnServerShutdown = "panics"
        /\ wk[w].hookCalls = 1
        /\ <<w, "OnServerShutdown hook panicked: value">> \in logged
        /\ wk[w].stopBegun
        /\ pc[w] = "ShuttingDown"

\* a worker has ended after a shutdown signal was sent to it while it was
\* serving, with its signal goroutine, if its entry point starts one,
\* waiting for signals
EndedAfterSignal(w) ==
    /\ wk[w].sigServing
    /\ pc[w] \in {"Returned", "Killed", "Panicked"}

\* C15: graceful shutdown of every worker.  A worker that has ended after
\* SIGINT, SIGTERM or SIGQUIT reached it while serving has called the hook
\* when one is set, has begun the graceful stop that closes its listener,
\* and has ended with no connection in flight.
C15_GracefulShutdown ==
    \A w \in Pids :
        EndedAfterSignal(w) =>
            /\ wk[w].stopBegun
            /\ wk[w].listener = "closed"
            /\ wk[w].hookCalls = (IF entry.OnServerShutdown = "nil" THEN 0 ELSE 1)
            /\ wk[w].aborted = 0

\* the process has done nothing of the worker's part of an entry point
NoWorkerPart(w) ==
    /\ wk[w].step = "entry"
    /\ wk[w].listener = "none"
    /\ wk[w].opts = {}
    /\ wk[w].handler = "none"
    /\ wk[w].inflight = 0 /\ wk[w].completed = 0
    /\ wk[w].ret = <<>>

\* C16: no network server in the main process.  A started process that is
\* a main process has, whatever entry point and server argument its host
\* program uses, done nothing of the worker's part: it has no listener,
\* serves no connection and is in StartMainProcess; a process that has a
\* listener or has had one is a worker.
C16_NoServerInMain ==
    \A p \in Pids :
        (pc[p] \notin {"none", "New"}) =>
            /\ isMainProcess[p] => (NoWorkerPart(p) /\ pc[p] \notin WorkerPcs)
            /\ (wk[p].listener # "none") => ~isMainProcess[p]

\* a main process started through ListenAndServeGRPC with a nil server is
\* in StartMainProcess
C16_Witness ==
    \E p \in Pids :
        /\ isMainProcess[p]
        /\ entry.adapter = "grpc" /\ entry.server = "nil"
        /\ pc[p] = "Starting"
        /\ NoWorkerPart(p)

\* C17: socket sharing.  Every listener getListenerWithSocketOptions has
\* built has SO_REUSEADDR and SO_REUSEPORT set on its descriptor (the
\* Control function runs before bind), and no worker of the pack fails to
\* bind the common address with "address already in use", however many
\* workers are bound to it already.
C17_SocketSharing ==
    \A w \in Pids :
        /\ (wk[w].listener = "open") =>
               {"SO_REUSEADDR", "SO_REUSEPORT"} \subseteq wk[w].opts
        /\ wk[w].lerr # <<"address already in use">>

\* two workers of one pack hold a listener on the common address at once
C17_Witness ==
    \E v, w \in Pids :
        /\ v # w
        /\ ~isMainProcess[v] /\ ~isMainProcess[w]
        /\ wk[v].listener = "open" /\ wk[w].listener = "open"
        /\ AlivePc(pc[v]) /\ AlivePc(pc[w])

\* C18: affinity pinning is best-effort.  A worker whose pinning the
\* system refused has the failure logged, is not ended by it (it does not
\* return the error of SetAffinity to its caller) and is restricted to one
\* execution unit, so that it goes on to its listener.
C18_AffinityBestEffort ==
    \A w \in Pids :
        (wk[w].affinity = "refused") =>
            /\ <<w, "could not set affinity">> \in logged
            /\ wk[w].ret # <<"sched_setaffinity error">>
            /\ wk[w].maxprocs = "1"
            /\ wk[w].step \in {"listener", "serve", "serving"}

\* the text of a decimal integer: digits, with or without a sign before them
IntegerText(s) ==
    \/ AllDigits(s)
    \/ Len(s) > 1 /\ s[1] \in {"+", "-"} /\ AllDigits(Tail(s))

\* a worker whose core number is missing or is no integer
MalformedCore(w) ==
    /\ pc[w] \notin {"none", "New"}
    /\ ~isMainProcess[w]
    /\ ~IntegerText(workerCpuCore[w])

\* C19: a malformed core number is fatal.  A worker whose core number is
\* missing or is no integer never sets its affinity or GOMAXPROCS, never
\* creates a listener, installs a signal handler or serves, and once its
\* entry point has returned it has returned an error: the error of the
\* conversion, unless the nil server argument was refused before.
C19_MalformedCoreIsFatal ==
    \A w \in Pids :
        MalformedCore(w) =>
            /\ wk[w].affinity = "unset" /\ wk[w].maxprocs = "default"
            /\ wk[w].listener = "none" /\ wk[w].handler = "none"
            /\ notified[w] = {}
            /\ wk[w].step \in {"entry", "runtime"}
            /\ pc[w] \in {"Setup", "Returned", "Killed"}
            /\ (pc[w] = "Returned") =>
                   wk[w].ret = (IF entry.adapter \in {"http", "grpc"} /\ entry.server = "nil"
                                THEN <<"nil server passed">>
                                ELSE <<"strconv.Atoi: invalid syntax">>)

\* a worker started with the core number "x" and a server has returned the
\* error of the conversion
C19_Witness ==
    \E w \in Pids :
        /\ MalformedCore(w)
        /\ workerCpuCore[w] = <<"x">>
        /\ entry.server = "set"
        /\ pc[w] = "Returned"
        /\ wk[w].ret = <<"strconv.Atoi: invalid syntax">>

\* C20: listener construction fails cleanly.  A worker whose option
\* setting or bind failed has no listener, its entry point has returned
\* the one combined error of getListenerWithSocketOptions, and the failure
\* has not ended the worker with a panic.
C20_ListenerFailsCleanly ==
    \A w \in Pids :
        (wk[w].lerr # <<>>) =>
            /\ wk[w].listener = "none"
            /\ pc[w] # "Panicked"
            /\ pc[w] = "Returned"
            /\ wk[w].ret = wk[w].lerr

\* C21: exit follows the graceful stop.  A worker whose entry point has
\* returned after its signal goroutine began server.Shutdown or
\* server.GracefulStop has had that call return: no connection was in
\* flight any more when the entry point returned.
C21_ExitFollowsGracefulStop ==
    \A w \in Pids :
        (pc[w] = "Returned" /\ wk[w].stopBegun) =>
            /\ wk[w].handler = "done"
            /\ wk[w].aborted = 0

\* the goroutines of sendSignalToWorkers that have gone on to p.Wait()
Waiting(x) == x \in {"wait", "done", "waitfail"}

\* C22 as stated: no goroutine of sendSignalToWorkers is at p.Wait() or
\* past it while the signal is still to be sent to another worker of the pool.
C22_AllSignalledBeforeAnyWait ==
    \A p \in Pids :
        (\E k \in Cores : Waiting(task[p][k])) =>
            (\A j \in Cores : task[p][j] # "signal")

\* C22, amended: a goroutine is started for every worker of the pool in
\* the step that leaves Running, and a goroutine is at p.Wait() or past it
\* only after its own p.Signal returned nil; a goroutine whose p.Signal
\* failed never waits.
C22_SignalBeforeOwnWait ==
    \A p \in Pids :
        (isMainProcess[p] /\ pc[p] \in {"Exiting", "Returned"}) =>
            \A k \in Cores :
                /\ (k \in Held(p)) <=> (task[p][k] # "none")
                /\ Waiting(task[p][k]) => SentCount(p, workers[p][k], sig[p]) >= 1
                /\ (task[p][k] = "sigfail") => SentCount(p, workers[p][k], sig[p]) = 0

\* the exit of one worker has been observed while the signal is still to
\* be sent to another worker of the pool
C22_Witness ==
    \E p \in Pids : \E k, j \in Held(p) :
        /\ pc[p] = "Exiting"
        /\ task[p][k] = "done"
        /\ SentCount(p, workers[p][k], sig[p]) = 1
        /\ task[p][j] = "signal"
        /\ SentCount(p, workers[p][j], sig[p]) = 0

\* p.Signal or p.Wait failed in a goroutine of p's sendSignalToWorkers
Failed(p) == \E k \in Cores : task[p][k] \in {"sigfail", "waitfail"}

\* sendSignalToWorkers of p has dealt with every worker of the pool: each
\* goroutine is over, and each whose p.Signal did not fail has sent the signal
PoolDealtWith(p) ==
    \A j \in Held(p) :
        /\ TaskOver(task[p][j])
        /\ (task[p][j] # "sigfail") => SentCount(p, workers[p][j], sig[p]) = 1

\* C23: shutdown errors are per worker.  The step in which p.Signal or
\* p.Wait fails for one worker changes the goroutine of no other worker
\* and leaves the main process on its exit path; and a shutdown in which
\* such a failure happened still completes: StartMainProcess returns, with
\* every other worker of the pool signalled and waited on.
C23_ErrorsDoNotBlock ==
    /\ [][\A p \in Pids : \A k \in Cores :
            (task'[p][k] # task[p][k] /\ task'[p][k] \in {"sigfail", "waitfail"}) =>
                /\ \A j \in Cores \ {k} : task'[p][j] = task[p][j]
                /\ pc'[p] = "Exiting"]_vars
    /\ \A p \in Pids :
           (pc[p] = "Exiting" /\ Failed(p)) ~> (pc[p] = "Returned" /\ PoolDealtWith(p))

\* StartMainProcess has returned from a shutdown in which the signal could
\* not be sent to one worker and the exit of another was observed
C23_Witness ==
    \E p \in Pids : \E k, j \in Held(p) :
        /\ pc[p] = "Returned"
        /\ task[p][k] = "sigfail"
        /\ task[p][j] = "done"
        /\ SentCount(p, workers[p][j], sig[p]) = 1

\* a live worker that has got through setupWorkerRuntime: it is pinned to
\* the core whose number it was given
Bound(w) == ~isMainProcess[w] /\ pc[w] \in {"Serving", "ShuttingDown"}

\* the core a worker pins itself to
CoreOf(w) == Atoi(workerCpuCore[w]).val

\* C24 as stated: at most one live worker is bound to a core at a time,
\* also while an upgrade is in progress.
C24_OneWorkerPerCore ==
    \A v, w \in Pids :
        (Bound(v) /\ Bound(w) /\ CoreOf(v) = CoreOf(w)) => v = w

\* C24, amended: the worker in slot k of a pool was given the core number
\* k and no other slot of that pool holds it, so two live workers of one
\* pool are bound to two different cores; two live workers bound to one
\* core are workers of two different main processes.
C24_OneWorkerPerCorePerPool ==
    /\ \A p \in Pids : \A k \in Held(p) :
           /\ k < numCPU
           /\ Atoi(workerCpuCore[workers[p][k]]) = [ok |-> TRUE, val |-> k]
           /\ given[workers[p][k]].parent = p
           /\ \A j \in Held(p) : (workers[p][j] = workers[p][k]) => j = k
    /\ \A v, w \in Pids :
           (Bound(v) /\ Bound(w) /\ v # w /\ given[v].parent = given[w].parent) =>
               CoreOf(v) # CoreOf(w)
    /\ \A v, w \in Pids :
           (Bound(v) /\ Bound(w) /\ v # w /\ CoreOf(v) = CoreOf(w)) =>
               given[v].parent # given[w].parent

\* during an upgrade the two workers of the old main process are serving,
\* bound to core 0 and to core 1, and a worker of the new main process is
\* serving too, bound to core 0
C24_Witness ==
    \E u, v, w \in Pids :
        /\ pc[u] = "Serving" /\ pc[v] = "Serving" /\ pc[w] = "Serving"
        /\ ~isMainProcess[u] /\ ~isMainProcess[v] /\ ~isMainProcess[w]
        /\ given[u].parent = given[v].parent
        /\ CoreOf(u) = 1 /\ CoreOf(v) = 0 /\ CoreOf(w) = 0
        /\ given[given[w].parent].parent = given[v].parent
        /\ given[given[w].parent].kind = "main"
        /\ Alive(given[v].parent) /\ Alive(given[w].parent)

\* how far the signal goroutine of a worker has got
HandlerRank(h) ==
    CASE h = "none" -> 0
      [] h = "starting" -> 1
      [] h = "waiting" -> 2
      [] h = "hook" -> 3
      [] h = "stop" -> 4
      [] h = "draining" -> 5
      [] h = "done" -> 6
      [] OTHER -> 7

\* C25: a worker acts on one signal.  OnServerShutdown is called at most
\* once and the graceful stop is begun at most once, however many signals
\* reach the worker: its signal goroutine never goes back to an earlier
\* point, and a signal that arrives while the worker is shutting down
\* leaves the goroutine where it is and does not end the process.
C25_OneSignalOnly ==
    /\ [](\A w \in Pids : wk[w].hookCalls <= 1)
    /\ [][\A w \in Pids :
            /\ HandlerRank(wk'[w].handler) >= HandlerRank(wk[w].handler)
            /\ wk[w].stopBegun =>
                  /\ wk'[w].stopBegun
                  /\ wk'[w].hookCalls = wk[w].hookCalls
                  /\ wk'[w].handler \in {"draining", "done"}
            /\ (pc[w] = "ShuttingDown") => pc'[w] \in {"ShuttingDown", "Returned"}
            /\ (pc[w] = "ShuttingDown" /\ extCount' # extCount) =>
                  /\ pc'[w] = "ShuttingDown"
                  /\ wk'[w].handler = wk[w].handler
                  /\ wk'[w].hookCalls = wk[w].hookCalls
                  /\ wk'[w].aborted = wk[w].aborted
         ]_vars

\* a worker whose graceful stop has returned after one call of the hook
\* holds a second signal, unread, in sigChan
C25_Witness ==
    \E w \in Pids :
        /\ pc[w] = "ShuttingDown"
        /\ wk[w].handler = "done"
        /\ wk[w].hookCalls = 1
        /\ sigChan[w] # <<>>

\* C26: workers ignore SIGUSR2.  A step in which SIGUSR2 is delivered to a
\* worker leaves the worker where it is, puts nothing into its sigChan,
\* moves its signal goroutine nowhere, calls no hook, begins no graceful
\* stop, touches no connection and starts no process; and no process that
\* is a worker has ever made a forkProcess call or called OnSIGUSR2.
C26_WorkersIgnoreUpgrade ==
    /\ [](\A w \in Pids :
            (pc[w] \notin {"none", "New"} /\ ~isMainProcess[w]) =>
                /\ forks[w] = [worker |-> 0, main |-> 0]
                /\ hookCalls[w] = 0
                /\ acted[w].upgrade = 0
                /\ \A k \in 1..Len(sigChan[w]) : sigChan[w][k] # "SIGUSR2")
    /\ [][\A w \in Pids :
            (wk'[w].usr2 # wk[w].usr2) =>
                /\ pc'[w] = pc[w]
                /\ sigChan'[w] = sigChan[w]
                /\ wk'[w].handler = wk[w].handler
                /\ wk'[w].hookCalls = wk[w].hookCalls
                /\ wk'[w].stopBegun = wk[w].stopBegun
                /\ wk'[w].listener = wk[w].listener
                /\ wk'[w].inflight = wk[w].inflight
                /\ wk'[w].aborted = wk[w].aborted
                /\ nextPid' = nextPid
         ]_vars
    /\ [][\A w \in Pids :
            (wk[w].usr2Serving /\ wk[w].usr2 = extCount /\ extCount' = extCount
               /\ wk[w].handler = "waiting") =>
                wk'[w].handler = "waiting"
         ]_vars

\* a worker of ListenAndServeHttp that SIGUSR2 reached while it served is
\* serving, its signal goroutine still waiting, a connection in flight
C26_Witness ==
    \E w \in Pids :
        /\ entry.adapter = "http"
        /\ wk[w].usr2Serving
        /\ pc[w] = "Serving"
        /\ wk[w].handler = "waiting"
        /\ wk[w].inflight = 1
        /\ sigChan[w] = <<>>

\* the main processes that are running
LiveMains == {p \in Pids : isMainProcess[p] /\ Alive(p)}

\* an upgrade has been made and is over: some main process started a new
\* one; every live main process is in its signal loop with no signal
\* waiting and no SIGUSR2 case running; the grace goroutine of every new main process has slept
\* through its interval and is done; and every process a grace goroutine
\* sent SIGTERM to has ended, as have the workers of its pool
UpgradeSettled ==
    /\ \E s \in Pids : given[s].kind = "main"
    /\ \A p \in LiveMains : pc[p] = "Running" /\ upgrading[p] = "no" /\ sigChan[p] = <<>>
    /\ \A s \in Pids : (given[s].kind = "main") => grace[s] = "done"
    /\ \A s \in Pids : \A e \in GraceSent(s) :
           /\ ~Alive(e.to)
           /\ \A k \in Held(e.to) : ~Alive(workers[e.to][k])

\* C27: an upgrade replaces the generation.  Once an upgrade is over, one
\* main process is running, however many SIGUSR2 the old main process
\* acted on.
C27_OneGenerationRemains ==
    UpgradeSettled => Cardinality(LiveMains) = 1

\* a Signal call with SIGINT, SIGTERM or SIGQUIT on main process p has
\* returned nil and p is still in its signal loop
ShutdownOwed(p) ==
    /\ isMainProcess[p]
    /\ pc[p] = "Running"
    /\ \E e \in sent : e.to = p /\ e.sig \in ShutdownSignals

\* C28: no shutdown signal is lost.  A main process in its signal loop to
\* which SIGINT, SIGTERM or SIGQUIT has been delivered leaves the loop for
\* the exit path sooner or later, whatever else is waiting in sigChan.
C28_NoSignalLost ==
    \A p \in Pids : ShutdownOwed(p) ~> (pc[p] \in {"Exiting", "Returned"})

\* C29: a main process on its exit path acts on no further signal.  From
\* the step in which it acted on SIGINT, SIGTERM or SIGQUIT it stays on
\* the exit path, takes nothing from sigChan, calls neither forkProcess
\* nor OnSIGUSR2, keeps its pool and the signal it passes on, and has sent
\* that signal to each worker of its pool at most once, whatever arrives.
C29_ExitingIsFinal ==
    /\ [](\A p \in Pids :
            (isMainProcess[p] /\ pc[p] \in {"Exiting", "Returned"}) =>
                /\ acted[p].shutdown = 1
                /\ upgrading[p] = "no"
                /\ \A k \in Held(p) :
                     /\ SentCount(p, workers[p][k], sig[p]) <= 1
                     /\ \A e \in SentTo(p, workers[p][k]) : e.sig = sig[p] /\ e.n = 1)
    /\ [][\A p \in Pids :
            (isMainProcess[p] /\ pc[p] \in {"Exiting", "Returned"}) =>
                /\ pc'[p] \in {"Exiting", "Returned"}
                /\ acted'[p] = acted[p]
                /\ forks'[p] = forks[p]
                /\ hookCalls'[p] = hookCalls[p]
                /\ sig'[p] = sig[p]
                /\ workers'[p] = workers[p]
                /\ Len(sigChan'[p]) >= Len(sigChan[p])
                /\ \A c \in Pids : (given'[c].parent = p) => (given[c].parent = p)
         ]_vars

\* a main process that waits for its worker on the exit path, the signal
\* sent, holds a SIGUSR2 that arrived meanwhile, unread, in sigChan
C29_Witness ==
    \E p \in Pids : \E k \in Held(p) :
        /\ pc[p] = "Exiting"
        /\ task[p][k] = "wait"
        /\ SentCount(p, workers[p][k], sig[p]) = 1
        /\ sigChan[p] = <<"SIGUSR2">>
        /\ acted[p].upgrade = 0

\* C30: the pool is written in the spawn loop only.  A step of a main
\* process that has left the spawn loop, or any step of another process
\* (a worker ending, a SIGUSR2 acted on, a hook that panics), leaves
\* workers[] of that main process and its count of worker forkProcess calls
\* as they are, and makes no process a worker of it; and at shutdown a
\* goroutine is started for every process the pool holds, ended or not,
\* and StartMainProcess returns only when each of them is over.
C30_PoolWrittenInSpawnLoopOnly ==
    /\ [][\A p \in Pids :
            (isMainProcess[p] /\ pc[p] \notin {"none", "New", "Starting"}) =>
                /\ workers'[p] = workers[p]
                /\ idx'[p] = idx[p]
                /\ forks'[p].worker = forks[p].worker
                /\ \A c \in Pids :
                     (given'[c].parent = p /\ given'[c].kind = "worker") =>
                         given[c] = given'[c]
         ]_vars
    /\ [](\A p \in Pids :
            (isMainProcess[p] /\ pc[p] \in {"Exiting", "Returned"}) =>
                \A k \in Held(p) :
                    /\ task[p][k] # "none"
                    /\ (pc[p] = "Returned") => TaskOver(task[p][k]))

\* a main process that acted on SIGUSR2, its hook panicking, and then on
\* a shutdown signal still holds a worker that has ended without being
\* signalled, and the goroutine for it has been started
C30_Witness ==
    \E p \in Pids : \E k \in Held(p) :
        /\ pc[p] = "Exiting"
        /\ acted[p].upgrade = 1
        /\ <<p, "OnSIGUSR2 hook panicked: value">> \in logged
        /\ pc[workers[p][k]] = "Returned"
        /\ SentCount(p, workers[p][k], sig[p]) = 0
        /\ task[p][k] = "signal"

====
